---- MODULE Spec2Model ----
(***************************************************************************)
(* A model of the PPU, the bus and the CPU registers of the NES emulator    *)
(* (src/src/ppu.rs, src/src/bus.rs, src/src/ppu_control_register.rs,       *)
(* src/src/cpu.rs).                                                        *)
(*                                                                         *)
(* Bytes are naturals in 0..255.  Option<u8> is a sequence: <<>> is None   *)
(* and <<v>> is Some(v).  Arrays that the code zero-initialises are        *)
(* functions over the indices written so far; an absent index reads 0.     *)
(* A Rust panic is the state fatal = TRUE, kept with the fields as they    *)
(* were when the panic was raised; nothing runs after it.                  *)
(***************************************************************************)
EXTENDS Integers, Sequences, FiniteSets, TLC

VARIABLES
    ctrl,               \* NesPPU.ctrl (ControlRegister bits)
    status,             \* NesPPU.status (StatusRegister bits)
    addr_value,         \* NesPPU.addr: <<high byte, low byte>>
    addr_hi_ptr,        \* NesPPU.addr write latch: TRUE = first (high) write expected
    scroll_x,           \* NesPPU.scroll: horizontal component
    scroll_y,           \* NesPPU.scroll: vertical component
    scroll_latch,       \* NesPPU.scroll write latch: TRUE = second write expected
    internal_data_buf,  \* NesPPU.internal_data_buf
    vram,               \* NesPPU.vram, the indices written so far
    palette_table,      \* NesPPU.palette_table, the indices written so far
    mirroring,          \* NesPPU.mirroring
    scanline,           \* NesPPU.scanline
    ppu_cycles,         \* NesPPU.cycles (the dot counter)
    nmi_interrupt,      \* NesPPU.nmi_interrupt
    bus_cycles,         \* Bus.cycles
    callbacks,          \* number of calls of Bus.gameloop_callback so far
    overflow_checks,    \* build profile: TRUE = u8 arithmetic overflow panics
    fatal,              \* the process has panicked
    dots,               \* history: sum of the arguments of all NesPPU.tick calls
    frame_signals,      \* history: number of NesPPU.tick calls that returned true
    w2006,              \* history: the bytes of the current run of $2006 writes
    last,               \* history: the last operation, what it returned, whether
                        \* it assigned Some(1) to nmi_interrupt, for a bus access
                        \* the address, for a write the byte written, for a
                        \* reset the registers before it
    mask,               \* NesPPU.mask (MaskRegister bits)
    oam_addr,           \* NesPPU.oam_addr
    oam_data,           \* NesPPU.oam_data, the indices holding a non-zero byte
    cpu_wram,           \* Bus.cpu_wram, the indices holding a non-zero byte
    prg_rom,            \* Bus.prg_rom: its length and the reset vector it holds
    joypad1,            \* Bus.joypad1: strobe, button_index, button_status
    register_a,         \* CPU.register_a
    register_x,         \* CPU.register_x
    register_y,         \* CPU.register_y
    stack_pointer,      \* CPU.stack_pointer
    cpu_status,         \* CPU.status
    program_counter,    \* CPU.program_counter
    wram_log            \* history: for each 2 KiB residue, the bus address in
                        \* 0x0000..0x1FFF last written and the non-zero byte written

ppuRegs == <<ctrl, status, addr_value, addr_hi_ptr, scroll_x, scroll_y, scroll_latch>>
ppuMem == <<internal_data_buf, vram, palette_table, mirroring>>
ppuTiming == <<scanline, ppu_cycles, nmi_interrupt>>
busVars == <<bus_cycles, callbacks, overflow_checks, fatal>>
histVars == <<dots, frame_signals, w2006, last>>
ppuOam == <<mask, oam_addr, oam_data>>
busMem == <<cpu_wram, prg_rom, joypad1>>
cpuRegs == <<register_a, register_x, register_y, stack_pointer, cpu_status, program_counter>>
memHist == <<wram_log>>
extVars == <<ppuOam, busMem, cpuRegs, memHist>>
vars == <<ppuRegs, ppuMem, ppuTiming, busVars, histVars, extVars>>

-----------------------------------------------------------------------------
(* Program constants *)

DotsPerScanline == 341
VBlankScanline == 241
ScanlinesPerFrame == 262
PpuTicksPerCpuCycle == 3
GENERATE_NMI == 128
VRAM_ADD_INCREMENT == 4
VBLANK_STARTED == 128
SPRITE_ZERO_HIT == 64

(* Bounds of the model *)

MaxDots == 90100
MaxBusCycles == 30100
MaxRatioCycles == 600

None == <<>>
Some(v) == <<v>>
NoRet == 0 - 1
BoolRet(b) == IF b THEN 1 ELSE 0
OptRet(o) == IF o = None THEN NoRet ELSE o[1]

-----------------------------------------------------------------------------
(* Bit operations on bytes; m is a power of two *)

Contains(bits, m) == (bits \div m) % 2 = 1
Insert(bits, m) == IF Contains(bits, m) THEN bits ELSE bits + m
Remove(bits, m) == IF Contains(bits, m) THEN bits - m ELSE bits

(* ControlRegister *)

generate_vblank_nmi(c) == Contains(c, GENERATE_NMI)

\* an increment that ignores the control bit
vram_addr_increment_always_one(c) == 1

vram_addr_increment(c) == IF ~Contains(c, VRAM_ADD_INCREMENT) THEN 1 ELSE 32

(* StatusRegister *)

set_vblank_status(s, on) == IF on THEN Insert(s, VBLANK_STARTED) ELSE Remove(s, VBLANK_STARTED)
set_sprite_zero_hit(s, on) == IF on THEN Insert(s, SPRITE_ZERO_HIT) ELSE Remove(s, SPRITE_ZERO_HIT)
reset_vblank_status(s) == Remove(s, VBLANK_STARTED)
is_in_vblank(s) == Contains(s, VBLANK_STARTED)
snapshot(s) == s

-----------------------------------------------------------------------------
(* NesPPU::tick *)

\* ppu.rs:58, the test on the dot counter after the dots were added
LineDone(cyc) == cyc > DotsPerScanline

\* a PPU that starts VBlank one scanline early
EntersVBlankEarly(sl) == sl = VBlankScanline - 1

\* ppu.rs:62
EntersVBlank(sl) == sl = VBlankScanline

\* a PPU that ends the frame one scanline early
FrameDoneEarly(sl) == sl >= ScanlinesPerFrame - 1

\* ppu.rs:70
FrameDone(sl) == sl >= ScanlinesPerFrame

\* The fields after tick(d) and the value it returns.
TickResult(d) ==
    LET cyc1 == ppu_cycles + d
        sl1 == scanline + 1
        st1 == IF EntersVBlank(sl1)
                 THEN set_sprite_zero_hit(set_vblank_status(status, TRUE), FALSE)
                 ELSE status
        nmi1 == IF EntersVBlank(sl1) /\ generate_vblank_nmi(ctrl) THEN Some(1) ELSE nmi_interrupt
    IN  IF ~LineDone(cyc1)
          THEN [cycles |-> cyc1, scanline |-> scanline, status |-> status,
                nmi |-> nmi_interrupt, ret |-> FALSE, nmi_set |-> FALSE]
          ELSE IF FrameDone(sl1)
                 THEN [cycles |-> cyc1 - DotsPerScanline, scanline |-> 0,
                       status |-> reset_vblank_status(set_sprite_zero_hit(st1, FALSE)),
                       nmi |-> None, ret |-> TRUE,
                       nmi_set |-> EntersVBlank(sl1) /\ generate_vblank_nmi(ctrl)]
                 ELSE [cycles |-> cyc1 - DotsPerScanline, scanline |-> sl1, status |-> st1,
                       nmi |-> nmi1, ret |-> FALSE,
                       nmi_set |-> EntersVBlank(sl1) /\ generate_vblank_nmi(ctrl)]

\* The effect of one tick(d) call on the PPU and on the history.
ApplyTick(d) ==
    LET r == TickResult(d)
    IN  /\ ppu_cycles' = r.cycles
        /\ scanline' = r.scanline
        /\ status' = r.status
        /\ nmi_interrupt' = r.nmi
        /\ dots' = dots + d
        /\ frame_signals' = frame_signals + BoolRet(r.ret)

\* A host calls NesPPU::tick(d) itself.
PpuTick(d) ==
    /\ ~fatal
    /\ UNCHANGED extVars
    /\ dots + d <= MaxDots
    /\ ApplyTick(d)
    /\ last' = [op |-> "tick", ret |-> BoolRet(TickResult(d).ret),
                nmi_set |-> TickResult(d).nmi_set]
    /\ w2006' = <<>>
    /\ UNCHANGED <<ctrl, addr_value, addr_hi_ptr, scroll_x, scroll_y, scroll_latch>>
    /\ UNCHANGED <<ppuMem, busVars>>

-----------------------------------------------------------------------------
(* Bus::tick *)

\* bus.rs:34, cycles * 3 in u8
TickDots(c) == c * PpuTicksPerCpuCycle

BusTickTo(c, limit) ==
    /\ ~fatal
    /\ UNCHANGED extVars
    /\ bus_cycles + c <= limit
    /\ bus_cycles' = bus_cycles + c
    /\ IF TickDots(c) > 255 /\ overflow_checks
         THEN /\ fatal' = TRUE
              /\ last' = [op |-> "bus_tick", ret |-> NoRet, nmi_set |-> FALSE]
              /\ UNCHANGED <<callbacks, status, ppuTiming, dots, frame_signals>>
         ELSE LET d == TickDots(c) % 256
              IN  /\ ApplyTick(d)
                  /\ callbacks' = callbacks + BoolRet(TickResult(d).ret)
                  /\ last' = [op |-> "bus_tick", ret |-> BoolRet(TickResult(d).ret),
                            nmi_set |-> TickResult(d).nmi_set]
                  /\ fatal' = fatal
    /\ w2006' = <<>>
    /\ UNCHANGED <<ctrl, addr_value, addr_hi_ptr, scroll_x, scroll_y, scroll_latch>>
    /\ UNCHANGED <<ppuMem, overflow_checks>>

BusTick(c) == BusTickTo(c, MaxBusCycles)

-----------------------------------------------------------------------------
(* Construction: NesPPU::new, Bus::new, CPU::new *)

StackReset == 253
StatusReset == 36

\* the cartridge's PRG-ROM: 16 KiB or 32 KiB, holding the bytes of a program
\* where the image gives some (rom.code, by PRG-ROM index) and the reset vector
\* in its last bytes but two; every other byte follows a fixed pattern in which
\* the two halves of a 32 KiB image differ
PrgRom(rom, i) ==
    IF "code" \in DOMAIN rom /\ i \in DOMAIN rom.code THEN rom.code[i]
    ELSE IF i = rom.len - 4 THEN rom.reset % 256
    ELSE IF i = rom.len - 3 THEN rom.reset \div 256
    ELSE (i + 7 * (i \div 16384)) % 256

DefaultRom == [len |-> 32768, reset |-> 32768]

\* cpu.rs:70, the registers CPU::new leaves
NewCpu == [a |-> 0, x |-> 0, y |-> 0, s |-> StackReset, p |-> StatusReset, pc |-> 0]

\* the state after construction, or after construction and instructions that
\* left the CPU registers as in c
FreshCpu(m, oc, rom, c) ==
    /\ ctrl = 0
    /\ status = 0
    /\ addr_value = <<0, 0>>
    /\ addr_hi_ptr = TRUE
    /\ scroll_x = 0
    /\ scroll_y = 0
    /\ scroll_latch = FALSE
    /\ internal_data_buf = 0
    /\ vram = <<>>
    /\ palette_table = <<>>
    /\ mirroring = m
    /\ scanline = 0
    /\ ppu_cycles = 0
    /\ nmi_interrupt = None
    /\ bus_cycles = 0
    /\ callbacks = 0
    /\ overflow_checks = oc
    /\ fatal = FALSE
    /\ dots = 0
    /\ frame_signals = 0
    /\ w2006 = <<>>
    /\ last = [op |-> "new", ret |-> NoRet, nmi_set |-> FALSE]
    /\ mask = 0
    /\ oam_addr = 0
    /\ oam_data = <<>>
    /\ cpu_wram = <<>>
    /\ prg_rom = rom
    /\ joypad1 = [strobe |-> FALSE, button_index |-> 0, button_status |-> 0]
    /\ register_a = c.a
    /\ register_x = c.x
    /\ register_y = c.y
    /\ stack_pointer = c.s
    /\ cpu_status = c.p
    /\ program_counter = c.pc
    /\ wram_log = <<>>

FreshRom(m, oc, rom) == FreshCpu(m, oc, rom, NewCpu)

Fresh(m, oc) == FreshRom(m, oc, DefaultRom)

-----------------------------------------------------------------------------
(* NesPPU::poll_nmi_interrupt, reached through Bus::poll_nmi_status *)

\* a poll that reads the latch and leaves it as it is
Peek(o) == [ret |-> o, left |-> o]

\* Option::take: the value returned and the value left behind
Take(o) == [ret |-> o, left |-> None]

PollNmi ==
    /\ ~fatal
    /\ UNCHANGED extVars
    /\ nmi_interrupt' = Take(nmi_interrupt).left
    /\ last' = [op |-> "poll_nmi", ret |-> OptRet(Take(nmi_interrupt).ret), nmi_set |-> FALSE]
    /\ w2006' = <<>>
    /\ UNCHANGED <<ppuRegs, ppuMem, scanline, ppu_cycles, busVars, dots, frame_signals>>

(* NesPPU::write_to_ctrl *)

\* a write that latches an NMI whatever the control register held before
CtrlWriteRaisesNmiAnyBefore(before_nmi_status, c, s) ==
    generate_vblank_nmi(c) /\ is_in_vblank(s)

\* ppu.rs:92, the condition under which the write latches an NMI
CtrlWriteRaisesNmi(before_nmi_status, c, s) ==
    ~before_nmi_status /\ generate_vblank_nmi(c) /\ is_in_vblank(s)

WriteToCtrl(value) ==
    /\ ~fatal
    /\ UNCHANGED extVars
    /\ ctrl' = value
    /\ nmi_interrupt' = IF CtrlWriteRaisesNmi(generate_vblank_nmi(ctrl), value, status)
                          THEN Some(1)
                          ELSE nmi_interrupt
    /\ last' = [op |-> "write_to_ctrl", ret |-> NoRet,
                nmi_set |-> CtrlWriteRaisesNmi(generate_vblank_nmi(ctrl), value, status)]
    /\ w2006' = <<>>
    /\ UNCHANGED <<status, addr_value, addr_hi_ptr, scroll_x, scroll_y, scroll_latch>>
    /\ UNCHANGED <<ppuMem, scanline, ppu_cycles, busVars, dots, frame_signals>>

(* NesPPU::read_status *)

\* a read that forgets the scroll latch
StatusReadKeepsScrollLatch(s) ==
    [ret |-> snapshot(s), status |-> reset_vblank_status(s),
     addr_hi_ptr |-> TRUE, scroll_latch |-> scroll_latch]

\* the fields read_status leaves behind
StatusRead(s) == [ret |-> snapshot(s), status |-> reset_vblank_status(s),
                  addr_hi_ptr |-> TRUE, scroll_latch |-> FALSE]

ReadStatus ==
    /\ ~fatal
    /\ UNCHANGED extVars
    /\ status' = StatusRead(status).status
    /\ addr_hi_ptr' = StatusRead(status).addr_hi_ptr
    /\ scroll_latch' = StatusRead(status).scroll_latch
    /\ last' = [op |-> "read_status", ret |-> StatusRead(status).ret, nmi_set |-> FALSE]
    /\ w2006' = <<>>
    /\ UNCHANGED <<ctrl, addr_value, scroll_x, scroll_y>>
    /\ UNCHANGED <<ppuMem, ppuTiming, busVars, dots, frame_signals>>

-----------------------------------------------------------------------------
(* AddrRegister: the 14-bit VRAM pointer behind $2006 *)

AddrGet(v) == v[1] * 256 + v[2]
AddrSet(a) == <<a \div 256, a % 256>>
AddrMirrorDown(v) == IF AddrGet(v) > 16383 THEN AddrSet(AddrGet(v) % 16384) ELSE v

\* one write: the high byte when the latch expects the first write, else the low byte
AddrUpdate(v, hi_ptr, data) ==
    AddrMirrorDown(IF hi_ptr THEN <<data, v[2]>> ELSE <<v[1], data>>)

\* the pointer after a $2007 access
AddrIncrement(v, inc) == AddrSet((AddrGet(v) + inc) % 16384)

(* ScrollRegister: the two components behind $2005 *)

ScrollWrite(x, y, latch, data) ==
    IF ~latch THEN [x |-> data, y |-> y, latch |-> TRUE]
              ELSE [x |-> x, y |-> data, latch |-> FALSE]

(* NesPPU::write_to_ppu_addr *)

\* a $2006 write that reads the latch the wrong way round
PpuAddrWriteSwapped(value) == AddrUpdate(addr_value, ~addr_hi_ptr, value)

\* the register that a $2006 write updates
PpuAddrWrite(value) == AddrUpdate(addr_value, addr_hi_ptr, value)

\* the run of consecutive $2006 writes that began on a first write, at most two pairs
RunAfter(run, hi_ptr, value) ==
    IF hi_ptr
      THEN IF Len(run) = 2 THEN Append(run, value) ELSE <<value>>
      ELSE IF Len(run) \in {1, 3} THEN Append(run, value) ELSE <<>>

WriteToPpuAddr(value) ==
    /\ ~fatal
    /\ UNCHANGED extVars
    /\ addr_value' = PpuAddrWrite(value)
    /\ addr_hi_ptr' = ~addr_hi_ptr
    /\ w2006' = RunAfter(w2006, addr_hi_ptr, value)
    /\ last' = [op |-> "write_to_ppu_addr", ret |-> NoRet, nmi_set |-> FALSE]
    /\ UNCHANGED <<ctrl, status, scroll_x, scroll_y, scroll_latch>>
    /\ UNCHANGED <<ppuMem, ppuTiming, busVars, dots, frame_signals>>

(* NesPPU::write_to_scroll *)

WriteToScroll(value) ==
    /\ ~fatal
    /\ UNCHANGED extVars
    /\ scroll_x' = ScrollWrite(scroll_x, scroll_y, scroll_latch, value).x
    /\ scroll_y' = ScrollWrite(scroll_x, scroll_y, scroll_latch, value).y
    /\ scroll_latch' = ScrollWrite(scroll_x, scroll_y, scroll_latch, value).latch
    /\ last' = [op |-> "write_to_scroll", ret |-> NoRet, nmi_set |-> FALSE]
    /\ w2006' = <<>>
    /\ UNCHANGED <<ctrl, status, addr_value, addr_hi_ptr>>
    /\ UNCHANGED <<ppuMem, ppuTiming, busVars, dots, frame_signals>>

-----------------------------------------------------------------------------
(* NesPPU::read_data *)

\* the cartridge's 8 KiB of CHR-ROM
ChrRomLen == 8192
ChrRom(a) == 1 + ((a \div 16) % 2)

VramLen == 2048
PaletteLen == 32
Load(mem, i) == IF i \in DOMAIN mem THEN mem[i] ELSE 0

mirror_vram_addr_tags_swapped(m, a) ==
    LET mirrored_vram == (a % 16384) - (IF Contains(a, 4096) THEN 4096 ELSE 0)
        vram_index == mirrored_vram - 8192
        name_table == vram_index \div 1024
    IN  CASE m = "HORIZONTAL" /\ name_table \in {2, 3} -> vram_index - 2048
          [] m = "VERTICAL" /\ name_table = 2 -> vram_index - 1024
          [] m = "VERTICAL" /\ name_table = 1 -> vram_index - 1024
          [] m = "VERTICAL" /\ name_table = 3 -> vram_index - 2048
          [] OTHER -> vram_index

mirror_vram_addr(m, a) ==
    LET mirrored_vram == (a % 16384) - (IF Contains(a, 4096) THEN 4096 ELSE 0)
        vram_index == mirrored_vram - 8192
        name_table == vram_index \div 1024
    IN  CASE m = "VERTICAL" /\ name_table \in {2, 3} -> vram_index - 2048
          [] m = "HORIZONTAL" /\ name_table = 2 -> vram_index - 1024
          [] m = "HORIZONTAL" /\ name_table = 1 -> vram_index - 1024
          [] m = "HORIZONTAL" /\ name_table = 3 -> vram_index - 2048
          [] OTHER -> vram_index

\* ppu.rs:190, the step the pointer takes on a $2007 access
increment_vram_addr(v, c) == AddrIncrement(v, vram_addr_increment(c))

\* what read_data does at pointer a: the byte returned, the buffer left, or a panic
DataRead(a) ==
    CASE a \in 0..8191 ->
           IF a < ChrRomLen
             THEN [panic |-> FALSE, ret |-> internal_data_buf, buf |-> ChrRom(a)]
             ELSE [panic |-> TRUE, ret |-> NoRet, buf |-> internal_data_buf]
      [] a \in 8192..12287 ->
           IF mirror_vram_addr(mirroring, a) < VramLen
             THEN [panic |-> FALSE, ret |-> internal_data_buf,
                   buf |-> Load(vram, mirror_vram_addr(mirroring, a))]
             ELSE [panic |-> TRUE, ret |-> NoRet, buf |-> internal_data_buf]
      [] a \in 12288..16127 -> [panic |-> TRUE, ret |-> NoRet, buf |-> internal_data_buf]
      [] a \in 16128..16383 ->
           IF a - 16128 < PaletteLen
             THEN [panic |-> FALSE, ret |-> Load(palette_table, a - 16128),
                   buf |-> internal_data_buf]
             ELSE [panic |-> TRUE, ret |-> NoRet, buf |-> internal_data_buf]
      [] OTHER -> [panic |-> TRUE, ret |-> NoRet, buf |-> internal_data_buf]

ReadData ==
    /\ ~fatal
    /\ UNCHANGED extVars
    /\ addr_value' = increment_vram_addr(addr_value, ctrl)
    /\ internal_data_buf' = DataRead(AddrGet(addr_value)).buf
    /\ fatal' = DataRead(AddrGet(addr_value)).panic
    /\ last' = [op |-> "read_data", ret |-> DataRead(AddrGet(addr_value)).ret, nmi_set |-> FALSE]
    /\ w2006' = <<>>
    /\ UNCHANGED <<ctrl, status, addr_hi_ptr, scroll_x, scroll_y, scroll_latch>>
    /\ UNCHANGED <<vram, palette_table, mirroring, ppuTiming>>
    /\ UNCHANGED <<bus_cycles, callbacks, overflow_checks, dots, frame_signals>>

(* NesPPU::write_to_data *)

\* a zero-initialised array after mem[i] = v, kept as the indices holding a
\* non-zero byte
Store(mem, i, v) ==
    IF v = 0
      THEN [j \in DOMAIN mem \ {i} |-> mem[j]]
      ELSE [j \in DOMAIN mem \cup {i} |-> IF j = i THEN v ELSE mem[j]]

\* the four palette addresses that write_to_data stores 0x10 lower
PaletteAliases == {16144, 16148, 16152, 16156}

\* what write_to_data does at pointer a: the two memories left, or a panic
DataWrite(a, value) ==
    CASE a \in 0..8191 -> [panic |-> FALSE, vram |-> vram, palette |-> palette_table]
      [] a \in 8192..12287 ->
           IF mirror_vram_addr(mirroring, a) < VramLen
             THEN [panic |-> FALSE, palette |-> palette_table,
                   vram |-> Store(vram, mirror_vram_addr(mirroring, a), value)]
             ELSE [panic |-> TRUE, vram |-> vram, palette |-> palette_table]
      [] a \in 12288..16127 -> [panic |-> TRUE, vram |-> vram, palette |-> palette_table]
      [] a \in PaletteAliases ->
           [panic |-> FALSE, vram |-> vram,
            palette |-> Store(palette_table, a - 16 - 16128, value)]
      [] a \in 16128..16383 \ PaletteAliases ->
           IF a - 16128 < PaletteLen
             THEN [panic |-> FALSE, vram |-> vram,
                   palette |-> Store(palette_table, a - 16128, value)]
             ELSE [panic |-> TRUE, vram |-> vram, palette |-> palette_table]
      [] OTHER -> [panic |-> TRUE, vram |-> vram, palette |-> palette_table]

\* the pointer advances after the match, so not when the match panicked
WriteToData(value) ==
    /\ ~fatal
    /\ vram' = DataWrite(AddrGet(addr_value), value).vram
    /\ palette_table' = DataWrite(AddrGet(addr_value), value).palette
    /\ fatal' = DataWrite(AddrGet(addr_value), value).panic
    /\ addr_value' = IF DataWrite(AddrGet(addr_value), value).panic
                       THEN addr_value
                       ELSE increment_vram_addr(addr_value, ctrl)
    /\ last' = [op |-> "write_to_data", ret |-> NoRet, nmi_set |-> FALSE, data |-> value]
    /\ w2006' = <<>>
    /\ UNCHANGED <<ctrl, status, addr_hi_ptr, scroll_x, scroll_y, scroll_latch>>
    /\ UNCHANGED <<internal_data_buf, mirroring, ppuTiming>>
    /\ UNCHANGED <<bus_cycles, callbacks, overflow_checks, dots, frame_signals>>
    /\ UNCHANGED extVars

(* NesPPU::write_to_mask, write_to_oam_addr, write_to_oam_data, read_oam_data *)

ppuCore == <<ppuRegs, ppuMem, ppuTiming>>

WriteToMask(value) ==
    /\ ~fatal
    /\ mask' = value
    /\ last' = [op |-> "write_to_mask", ret |-> NoRet, nmi_set |-> FALSE, data |-> value]
    /\ w2006' = <<>>
    /\ UNCHANGED <<oam_addr, oam_data, ppuCore, busVars, dots, frame_signals>>
    /\ UNCHANGED <<busMem, cpuRegs, memHist>>

WriteToOamAddr(value) ==
    /\ ~fatal
    /\ oam_addr' = value
    /\ last' = [op |-> "write_to_oam_addr", ret |-> NoRet, nmi_set |-> FALSE, data |-> value]
    /\ w2006' = <<>>
    /\ UNCHANGED <<mask, oam_data, ppuCore, busVars, dots, frame_signals>>
    /\ UNCHANGED <<busMem, cpuRegs, memHist>>

WriteToOamData(value) ==
    /\ ~fatal
    /\ oam_data' = Store(oam_data, oam_addr, value)
    /\ oam_addr' = (oam_addr + 1) % 256
    /\ last' = [op |-> "write_to_oam_data", ret |-> NoRet, nmi_set |-> FALSE, data |-> value]
    /\ w2006' = <<>>
    /\ UNCHANGED <<mask, ppuCore, busVars, dots, frame_signals>>
    /\ UNCHANGED <<busMem, cpuRegs, memHist>>

ReadOamData ==
    /\ ~fatal
    /\ last' = [op |-> "read_oam_data", ret |-> Load(oam_data, oam_addr), nmi_set |-> FALSE]
    /\ w2006' = <<>>
    /\ UNCHANGED <<ppuCore, busVars, dots, frame_signals, extVars>>

-----------------------------------------------------------------------------
(* Joypad::read, Joypad::write *)

JoypadBit(pad) == (pad.button_status \div (2 ^ pad.button_index)) % 2

JoypadRead ==
    /\ ~fatal
    /\ joypad1' = IF joypad1.button_index <= 7 /\ ~joypad1.strobe
                    THEN [joypad1 EXCEPT !.button_index = @ + 1]
                    ELSE joypad1
    /\ last' = [op |-> "joypad_read", nmi_set |-> FALSE,
                ret |-> IF joypad1.button_index > 7 THEN 1 ELSE JoypadBit(joypad1)]
    /\ w2006' = <<>>
    /\ UNCHANGED <<ppuCore, busVars, dots, frame_signals>>
    /\ UNCHANGED <<ppuOam, cpu_wram, prg_rom, cpuRegs, memHist>>

JoypadWrite(data) ==
    /\ ~fatal
    /\ joypad1' = [joypad1 EXCEPT !.strobe = (data % 2 = 1),
                                  !.button_index = IF data % 2 = 1 THEN 0 ELSE @]
    /\ last' = [op |-> "joypad_write", ret |-> NoRet, nmi_set |-> FALSE, data |-> data]
    /\ w2006' = <<>>
    /\ UNCHANGED <<ppuCore, busVars, dots, frame_signals>>
    /\ UNCHANGED <<ppuOam, cpu_wram, prg_rom, cpuRegs, memHist>>

-----------------------------------------------------------------------------
(* Bus::mem_read, Bus::mem_write *)

\* history records of the accesses the bus serves itself
BusRead(addr, v) == [op |-> "mem_read", ret |-> v, nmi_set |-> FALSE, addr |-> addr]
BusWrite(addr, data) ==
    [op |-> "mem_write", ret |-> NoRet, nmi_set |-> FALSE, addr |-> addr, data |-> data]

\* an access that changes nothing
BusQuiet(l) ==
    /\ ~fatal
    /\ last' = l
    /\ w2006' = <<>>
    /\ UNCHANGED <<ppuCore, busVars, dots, frame_signals, extVars>>

\* an access that panics in the bus
BusPanic(l) ==
    /\ ~fatal
    /\ fatal' = TRUE
    /\ last' = l
    /\ UNCHANGED <<ppuCore, bus_cycles, callbacks, overflow_checks>>
    /\ UNCHANGED <<dots, frame_signals, w2006, extVars>>

\* bus.rs:44, the PRG-ROM index of a bus address in 0x8000..0xFFFF
PrgIndexUnmirrored(len, addr) == addr - 32768

PrgIndex(len, addr) ==
    IF len = 16384 /\ addr - 32768 >= 16384
      THEN (addr - 32768) % 16384
      ELSE addr - 32768

read_prg_rom(addr) ==
    IF PrgIndex(prg_rom.len, addr) < prg_rom.len
      THEN BusQuiet(BusRead(addr, PrgRom(prg_rom, PrgIndex(prg_rom.len, addr))))
      ELSE BusPanic(BusRead(addr, NoRet))

\* addr & 0x2007 for an address in 0x2000..0x3FFF
PpuRegister(addr) == 8192 + (addr % 8)

WriteOnlyRegistersWithout2006 == {8192, 8193, 8195, 8197, 16404}
WriteOnlyRegisters == {8192, 8193, 8195, 8197, 8198, 16404}

RamIndexUnmirrored(addr) == addr
RamIndex(addr) == addr % 2048

MemRead(addr) ==
    CASE addr \in 0..8191 -> BusQuiet(BusRead(addr, Load(cpu_wram, RamIndex(addr))))
      [] addr \in 8192..16383 /\ PpuRegister(addr) \in WriteOnlyRegisters ->
           BusPanic(BusRead(addr, NoRet))
      [] addr \in 8192..16383 /\ PpuRegister(addr) = 8194 -> ReadStatus
      [] addr \in 8192..16383 /\ PpuRegister(addr) = 8196 -> ReadOamData
      [] addr \in 8192..16383 /\ PpuRegister(addr) = 8199 -> ReadData
      [] addr = 16404 -> BusPanic(BusRead(addr, NoRet))
      [] addr \in 16384..16405 \ {16404} -> BusQuiet(BusRead(addr, 0))
      [] addr = 16406 -> JoypadRead
      [] addr = 16407 -> BusQuiet(BusRead(addr, 0))
      [] addr \in 32768..65535 -> read_prg_rom(addr)
      [] OTHER -> BusQuiet(BusRead(addr, 0))

\* the bytes an OAM DMA reads without side effect: work RAM, PRG-ROM and the
\* unmapped ranges
BusByte(addr) ==
    CASE addr \in 0..8191 -> Load(cpu_wram, RamIndex(addr))
      [] addr \in 32768..65535 -> PrgRom(prg_rom, PrgIndex(prg_rom.len, addr))
      [] OTHER -> 0

\* the reads at which mem_read panics.  A DMA page in 0x2000..0x3FFF starts
\* at a mirror of 0x2000 and page 0x40 reaches 0x4014 before 0x4016, so the
\* copy stops before any read with a side effect
Unreadable(addr) ==
    \/ addr \in 8192..16383 /\ PpuRegister(addr) \in WriteOnlyRegisters
    \/ addr = 16404

\* ppu.rs:118, the loop of write_oam_dma over the 256 bytes read from page hi:
\* step i stores byte i at (at + i) mod 256 and steps the address, so cell j
\* is stored once, by step (j - at) mod 256, and the address is stepped 256 times
DmaStepFromZero(at, j) == j
DmaStep(at, j) == (j + 256 - at) % 256

write_oam_dma(at, hi) ==
    [oam_data |-> [j \in {k \in 0..255 : BusByte(hi + DmaStep(at, k)) # 0}
                     |-> BusByte(hi + DmaStep(at, j))],
     oam_addr |-> (at + 256) % 256]

OamDma(data) ==
    IF \E i \in 0..255 : Unreadable(data * 256 + i)
      THEN BusPanic(BusWrite(16404, data))
      ELSE /\ ~fatal
           /\ oam_data' = write_oam_dma(oam_addr, data * 256).oam_data
           /\ oam_addr' = write_oam_dma(oam_addr, data * 256).oam_addr
           /\ last' = BusWrite(16404, data)
           /\ w2006' = <<>>
           /\ UNCHANGED <<mask, ppuCore, busVars, dots, frame_signals>>
           /\ UNCHANGED <<busMem, cpuRegs, memHist>>

RamWrite(addr, data) ==
    /\ ~fatal
    /\ cpu_wram' = Store(cpu_wram, RamIndex(addr), data)
    /\ wram_log' = Store([b \in {c \in DOMAIN wram_log : c % 2048 # addr % 2048}
                             |-> wram_log[b]], addr, data)
    /\ last' = BusWrite(addr, data)
    /\ w2006' = <<>>
    /\ UNCHANGED <<ppuCore, busVars, dots, frame_signals>>
    /\ UNCHANGED <<ppuOam, prg_rom, joypad1, cpuRegs>>

MemWrite(addr, data) ==
    CASE addr \in 0..8191 -> RamWrite(addr, data)
      [] addr \in 8192..16383 /\ PpuRegister(addr) = 8192 -> WriteToCtrl(data)
      [] addr \in 8192..16383 /\ PpuRegister(addr) = 8193 -> WriteToMask(data)
      [] addr \in 8192..16383 /\ PpuRegister(addr) = 8194 -> BusPanic(BusWrite(addr, data))
      [] addr \in 8192..16383 /\ PpuRegister(addr) = 8195 -> WriteToOamAddr(data)
      [] addr \in 8192..16383 /\ PpuRegister(addr) = 8196 -> WriteToOamData(data)
      [] addr \in 8192..16383 /\ PpuRegister(addr) = 8197 -> WriteToScroll(data)
      [] addr \in 8192..16383 /\ PpuRegister(addr) = 8198 -> WriteToPpuAddr(data)
      [] addr \in 8192..16383 /\ PpuRegister(addr) = 8199 -> WriteToData(data)
      [] addr \in 16384..16403 \cup {16405} -> BusQuiet(BusWrite(addr, data))
      [] addr = 16406 -> JoypadWrite(data)
      [] addr = 16407 -> BusQuiet(BusWrite(addr, data))
      [] addr = 16404 -> OamDma(data)
      [] addr \in 32768..65535 -> BusPanic(BusWrite(addr, data))
      [] OTHER -> BusQuiet(BusWrite(addr, data))

-----------------------------------------------------------------------------
(* CPU::reset, CPU::get_operand_address *)

PrgWordBigEndian(pos) ==
    256 * PrgRom(prg_rom, PrgIndex(prg_rom.len, pos))
      + PrgRom(prg_rom, PrgIndex(prg_rom.len, pos + 1))

\* cpu.rs:27, mem_read_u16 where both reads are served by PRG-ROM
PrgWord(pos) ==
    PrgRom(prg_rom, PrgIndex(prg_rom.len, pos))
      + 256 * PrgRom(prg_rom, PrgIndex(prg_rom.len, pos + 1))

ResetVector == PrgWord(65532)

Reset ==
    /\ ~fatal
    /\ register_a' = 0
    /\ register_x' = 0
    /\ register_y' = 0
    /\ stack_pointer' = StackReset
    /\ cpu_status' = StatusReset
    /\ IF PrgIndex(prg_rom.len, 65533) < prg_rom.len
         THEN program_counter' = ResetVector /\ fatal' = fatal
         ELSE program_counter' = program_counter /\ fatal' = TRUE
    /\ last' = [op |-> "reset", ret |-> NoRet, nmi_set |-> FALSE,
                from |-> <<register_a, register_x, register_y, stack_pointer,
                           cpu_status, program_counter>>]
    /\ w2006' = <<>>
    /\ UNCHANGED <<ppuCore, bus_cycles, callbacks, overflow_checks, dots, frame_signals>>
    /\ UNCHANGED <<ppuOam, busMem, memHist>>

\* the addressing modes modelled: Immediate is the program counter itself,
\* ZeroPage is the byte at the program counter, read from an address whose
\* read has no side effect, and NoneAddressing panics
AddressingModes == {"Immediate", "ZeroPage", "NoneAddressing"}

OperandAddress(mode) ==
    [op |-> "get_operand_address", nmi_set |-> FALSE, mode |-> mode,
     ret |-> CASE mode = "Immediate" -> program_counter
               [] mode = "ZeroPage" -> BusByte(program_counter)
               [] OTHER -> NoRet]

GetOperandAddress(mode) ==
    CASE mode = "NoneAddressing" -> BusPanic(OperandAddress(mode))
      [] mode = "ZeroPage" ->
           /\ program_counter \in (0..8191) \cup (16408..65535)
           /\ BusQuiet(OperandAddress(mode))
      [] OTHER -> BusQuiet(OperandAddress(mode))

-----------------------------------------------------------------------------
(* The instruction table (opcodes::OPCODES_MAP) *)

Op(mnemonic, mode, len, cycles) ==
    [mnemonic |-> mnemonic, mode |-> mode, len |-> len, cycles |-> cycles]

\* the encoded length that goes with an addressing mode
ModeLen(mode) == IF mode \in {"Absolute", "Absolute_X", "Absolute_Y"} THEN 3 ELSE 2

\* the opcodes of one mnemonic, listed with their modes and base cycles
Family(mnemonic, codes, modes, cycles) ==
    [c \in {codes[i] : i \in DOMAIN codes} |->
        Op(mnemonic, modes[CHOOSE i \in DOMAIN codes : codes[i] = c],
           ModeLen(modes[CHOOSE i \in DOMAIN codes : codes[i] = c]),
           cycles[CHOOSE i \in DOMAIN codes : codes[i] = c])]

\* opcodes without an operand address: one byte, or as long as given
Implied(mnemonic, codes, len, cycles) ==
    [c \in codes |-> Op(mnemonic, "NoneAddressing", len, cycles)]

AluModes ==
    <<"Immediate", "ZeroPage", "ZeroPage_X", "Absolute", "Absolute_X", "Absolute_Y",
      "Indirect_X", "Indirect_Y">>
AluCycles == <<2, 3, 4, 4, 4, 4, 6, 5>>
StaModes ==
    <<"ZeroPage", "ZeroPage_X", "Absolute", "Absolute_X", "Absolute_Y", "Indirect_X",
      "Indirect_Y">>
StaCycles == <<3, 4, 4, 5, 5, 6, 6>>
RmwModes == <<"ZeroPage", "ZeroPage_X", "Absolute", "Absolute_X">>
RmwCycles == <<5, 6, 6, 7>>

OPCODES_MAP ==
    Family("ADC", <<105, 101, 117, 109, 125, 121, 97, 113>>, AluModes, AluCycles)
    @@ Family("AND", <<41, 37, 53, 45, 61, 57, 33, 49>>, AluModes, AluCycles)
    @@ Family("CMP", <<201, 197, 213, 205, 221, 217, 193, 209>>, AluModes, AluCycles)
    @@ Family("EOR", <<73, 69, 85, 77, 93, 89, 65, 81>>, AluModes, AluCycles)
    @@ Family("LDA", <<169, 165, 181, 173, 189, 185, 161, 177>>, AluModes, AluCycles)
    @@ Family("ORA", <<9, 5, 21, 13, 29, 25, 1, 17>>, AluModes, AluCycles)
    @@ Family("SBC", <<233, 229, 245, 237, 253, 249, 225, 241>>, AluModes, AluCycles)
    @@ Family("LDX", <<162, 166, 182, 174, 190>>,
              <<"Immediate", "ZeroPage", "ZeroPage_Y", "Absolute", "Absolute_Y">>,
              <<2, 3, 4, 4, 4>>)
    @@ Family("LDY", <<160, 164, 180, 172, 188>>,
              <<"Immediate", "ZeroPage", "ZeroPage_X", "Absolute", "Absolute_X">>,
              <<2, 3, 4, 4, 4>>)
    @@ Family("STA", <<133, 149, 141, 157, 153, 129, 145>>, StaModes, StaCycles)
    @@ Family("STX", <<134, 150, 142>>, <<"ZeroPage", "ZeroPage_Y", "Absolute">>, <<3, 4, 4>>)
    @@ Family("STY", <<132, 148, 140>>, <<"ZeroPage", "ZeroPage_X", "Absolute">>, <<3, 4, 4>>)
    @@ Family("INC", <<230, 246, 238, 254>>, RmwModes, RmwCycles)
    @@ Family("DEC", <<198, 214, 206, 222>>, RmwModes, RmwCycles)
    @@ Family("ASL", <<6, 22, 14, 30>>, RmwModes, RmwCycles)
    @@ Family("*DCP", <<199, 215, 207, 223, 219, 211, 195>>,
              <<"ZeroPage", "ZeroPage_X", "Absolute", "Absolute_X", "Absolute_Y",
                "Indirect_Y", "Indirect_X">>,
              <<5, 6, 6, 7, 7, 8, 8>>)
    @@ Family("*NOP", <<4, 68, 100, 20, 52, 84, 116, 212, 244, 12, 28, 60, 92, 124, 220, 252>>,
              <<"ZeroPage", "ZeroPage", "ZeroPage", "ZeroPage_X", "ZeroPage_X", "ZeroPage_X",
                "ZeroPage_X", "ZeroPage_X", "ZeroPage_X", "Absolute", "Absolute_X",
                "Absolute_X", "Absolute_X", "Absolute_X", "Absolute_X", "Absolute_X">>,
              <<3, 3, 3, 4, 4, 4, 4, 4, 4, 4, 4, 4, 4, 4, 4, 4>>)
    @@ Implied("BRK", {0}, 1, 7)
    @@ Implied("NOP", {234}, 1, 2)
    @@ Implied("BCC", {144}, 2, 2) @@ Implied("BCS", {176}, 2, 2)
    @@ Implied("BEQ", {240}, 2, 2) @@ Implied("BNE", {208}, 2, 2)
    @@ Implied("BMI", {48}, 2, 2) @@ Implied("BPL", {16}, 2, 2)
    @@ Implied("BVC", {80}, 2, 2) @@ Implied("BVS", {112}, 2, 2)
    @@ Implied("CLC", {24}, 1, 2) @@ Implied("SEC", {56}, 1, 2)
    @@ Implied("CLD", {216}, 1, 2) @@ Implied("SED", {248}, 1, 2)
    @@ Implied("CLI", {88}, 1, 2) @@ Implied("SEI", {120}, 1, 2)
    @@ Implied("CLV", {184}, 1, 2)
    @@ Implied("TAX", {170}, 1, 2) @@ Implied("TXA", {138}, 1, 2)
    @@ Implied("TSX", {186}, 1, 2) @@ Implied("TXS", {154}, 1, 2)
    @@ Implied("INX", {232}, 1, 2) @@ Implied("DEX", {202}, 1, 2)
    @@ Implied("PHA", {72}, 1, 3) @@ Implied("PHP", {8}, 1, 3)
    @@ Implied("PLA", {104}, 1, 4) @@ Implied("PLP", {40}, 1, 4)
    @@ Implied("RTI", {64}, 1, 6) @@ Implied("RTS", {96}, 1, 6)
    @@ Implied("JSR", {32}, 3, 6)
    @@ Implied("JMP", {76}, 3, 3)
    @@ Implied("JMP_INDIRECT", {108}, 3, 5)

-----------------------------------------------------------------------------
(* The CPU inside one iteration of run_with_callback.  The iteration works  *)
(* on a record m: the registers, the work RAM with its write log, the      *)
(* arguments of the Bus::tick calls made so far, the bytes written to the   *)
(* PPU control register (a handler that writes makes no Bus::tick call      *)
(* before the write), the addresses push_stack and pop_stack used, whether  *)
(* a panic was raised, and whether another address that the bus forwards    *)
(* to the PPU, the OAM DMA or the joypad was accessed.                      *)

CARRY == 1
ZERO == 2
INTERRUPT_DISABLE == 4
DECIMAL_MODE == 8
BREAK == 16
BREAK2 == 32
OVERFLOW == 64
NEGATIV == 128

\* the only element of a one-element set
Only(S) == CHOOSE v \in S : TRUE

\* the rest of a handler, which does not run after a panic
Do(m, F(_)) == Only({IF v.fatal THEN v ELSE F(v) : v \in {m}})

Cpu ==
    [a |-> register_a, x |-> register_x, y |-> register_y, s |-> stack_pointer,
     p |-> cpu_status, pc |-> program_counter, ram |-> cpu_wram, log |-> wram_log,
     ticks |-> <<>>, ctrl_writes |-> <<>>, stack |-> <<>>, fatal |-> FALSE, io |-> FALSE]

Panic(m) == [m EXCEPT !.fatal = TRUE]

\* the addresses whose access the bus forwards to the PPU, the OAM DMA or the
\* joypad
IoAddr(addr) == addr \in 8192..16383 \/ addr \in {16404, 16406}

Touch(m, addr) == IF IoAddr(addr) THEN [m EXCEPT !.io = TRUE] ELSE m

\* bus.rs:54, mem_read of an address that is not forwarded
mem_read(m, addr) ==
    CASE addr \in 0..8191 -> Load(m.ram, RamIndex(addr))
      [] addr \in 32768..65535 -> PrgRom(prg_rom, PrgIndex(prg_rom.len, addr))
      [] OTHER -> 0

\* bus.rs:81, mem_write of an address that is not forwarded
mem_write(m, addr, data) ==
    CASE addr \in 0..8191 ->
           [m EXCEPT !.ram = Store(m.ram, RamIndex(addr), data),
                     !.log = Store([b \in {c \in DOMAIN m.log : c % 2048 # addr % 2048}
                                      |-> m.log[b]], addr, data)]
      [] addr \in 8192..16383 /\ PpuRegister(addr) = 8192 ->
           [m EXCEPT !.ctrl_writes = Append(m.ctrl_writes, data)]
      [] addr \in 32768..65535 -> Panic(m)
      [] OTHER -> Touch(m, addr)

\* cpu.rs:27, mem_read_u16: pos + 1 is a u16 addition
mem_read_u16(m, pos) ==
    IF pos = 65535
      THEN [fatal |-> overflow_checks, v |-> mem_read(m, pos) + 256 * mem_read(m, 0),
            io |-> IoAddr(pos)]
      ELSE [fatal |-> FALSE, v |-> mem_read(m, pos) + 256 * mem_read(m, pos + 1),
            io |-> IoAddr(pos) \/ IoAddr(pos + 1)]

\* Bus::tick called from the CPU
Tick(m, c) == [m EXCEPT !.ticks = Append(m.ticks, c)]

SetFlag(m, flag, on) == [m EXCEPT !.p = IF on THEN Insert(m.p, flag) ELSE Remove(m.p, flag)]

\* cpu.rs:713
update_zero_and_negative_flags(m, result) ==
    [m EXCEPT !.p = IF result >= 128
                      THEN Insert(IF result = 0 THEN Insert(m.p, ZERO) ELSE Remove(m.p, ZERO),
                                  NEGATIV)
                      ELSE Remove(IF result = 0 THEN Insert(m.p, ZERO) ELSE Remove(m.p, ZERO),
                                  NEGATIV)]

\* cpu.rs:82 and cpu.rs:87
StackAddr(s) == 256 + s

push_stack_in_zero_page(m, data) ==
    [mem_write(m, m.s, data) EXCEPT !.s = (m.s + 255) % 256,
                               !.stack = Append(m.stack, m.s)]

push_stack(m, data) ==
    [mem_write(m, StackAddr(m.s), data) EXCEPT !.s = (m.s + 255) % 256,
                                          !.stack = Append(m.stack, StackAddr(m.s))]

pop_stack(m) ==
    [m |-> [m EXCEPT !.s = (m.s + 1) % 256,
                     !.stack = Append(m.stack, StackAddr((m.s + 1) % 256))],
     v |-> mem_read(m, StackAddr((m.s + 1) % 256))]

\* cpu.rs:98: high byte first
push_stack_u16(m, data) ==
    Only({push_stack(v, data % 256) : v \in {push_stack(m, data \div 256)}})

\* cpu.rs:92: low byte first
pop_stack_u16(m) ==
    Only({ Only({ [m |-> hi.m, v |-> hi.v * 256 + lo.v] : hi \in {pop_stack(lo.m)} }) :
           lo \in {pop_stack(m)} })

\* cpu.rs:843
page_cross(addr1, addr2) == addr1 \div 256 # addr2 \div 256

-----------------------------------------------------------------------------
(* CPU::get_operand_address and the instruction handlers *)

\* cpu.rs:727: the operand address, whether the page was crossed, whether a
\* u16 addition panicked, whether a forwarded address was read
get_operand_address(m, mode) ==
    CASE mode = "Immediate" ->
           [addr |-> m.pc, crossed |-> FALSE, fatal |-> FALSE, io |-> FALSE]
      [] mode = "ZeroPage" ->
           [addr |-> mem_read(m, m.pc), crossed |-> FALSE, fatal |-> FALSE, io |-> IoAddr(m.pc)]
      [] mode = "ZeroPage_X" ->
           [addr |-> (mem_read(m, m.pc) + m.x) % 256, crossed |-> FALSE, fatal |-> FALSE,
            io |-> IoAddr(m.pc)]
      [] mode = "ZeroPage_Y" ->
           [addr |-> (mem_read(m, m.pc) + m.y) % 256, crossed |-> FALSE, fatal |-> FALSE,
            io |-> IoAddr(m.pc)]
      [] mode = "Absolute" ->
           [addr |-> mem_read_u16(m, m.pc).v, crossed |-> FALSE,
            fatal |-> mem_read_u16(m, m.pc).fatal, io |-> mem_read_u16(m, m.pc).io]
      [] mode = "Absolute_X" ->
           [addr |-> (mem_read_u16(m, m.pc).v + m.x) % 65536,
            crossed |-> page_cross(mem_read_u16(m, m.pc).v,
                                   (mem_read_u16(m, m.pc).v + m.x) % 65536),
            fatal |-> mem_read_u16(m, m.pc).fatal, io |-> mem_read_u16(m, m.pc).io]
      [] mode = "Absolute_Y" ->
           [addr |-> (mem_read_u16(m, m.pc).v + m.y) % 65536,
            crossed |-> page_cross(mem_read_u16(m, m.pc).v,
                                   (mem_read_u16(m, m.pc).v + m.y) % 65536),
            fatal |-> mem_read_u16(m, m.pc).fatal, io |-> mem_read_u16(m, m.pc).io]
      [] mode = "Indirect_X" ->
           [addr |-> mem_read(m, (mem_read(m, m.pc) + m.x) % 256)
                       + 256 * mem_read(m, (mem_read(m, m.pc) + m.x + 1) % 256),
            crossed |-> FALSE, fatal |-> FALSE, io |-> IoAddr(m.pc)]
      [] mode = "Indirect_Y" ->
           [addr |-> (mem_read(m, mem_read(m, m.pc)) + 256 * mem_read(m, (mem_read(m, m.pc) + 1) % 256)
                        + m.y) % 65536,
            crossed |-> page_cross((mem_read(m, mem_read(m, m.pc))
                                      + 256 * mem_read(m, (mem_read(m, m.pc) + 1) % 256) + m.y) % 65536,
                                   mem_read(m, mem_read(m, m.pc))
                                      + 256 * mem_read(m, (mem_read(m, m.pc) + 1) % 256)),
            fatal |-> FALSE, io |-> IoAddr(m.pc)]
      [] OTHER -> [addr |-> 0, crossed |-> FALSE, fatal |-> TRUE, io |-> FALSE]

\* a handler that starts with get_operand_address and then reads the operand
Reading(m, mode, F(_, _, _)) ==
    Only({ IF ea.fatal
             THEN Panic(m)
             ELSE F([Touch(m, ea.addr) EXCEPT !.io = @ \/ ea.io], mem_read(m, ea.addr), ea) :
           ea \in {get_operand_address(m, mode)} })

\* a handler that starts with get_operand_address and does not read the operand
Addressing(m, mode, F(_, _)) ==
    Only({ IF ea.fatal THEN Panic(m) ELSE F([m EXCEPT !.io = @ \/ ea.io], ea) :
           ea \in {get_operand_address(m, mode)} })

\* the closing lines of a handler that would not count a crossed page
NoPageTick(m, ea) == m

\* the closing lines of the handlers that count a crossed page
PageTick(m, ea) == IF ea.crossed THEN Tick(m, 1) ELSE m

\* bitwise operations on bytes
RECURSIVE BitAnd(_, _, _)
BitAnd(a, b, n) ==
    IF n = 0 THEN 0
    ELSE ((a % 2) * (b % 2)) + 2 * BitAnd(a \div 2, b \div 2, n - 1)
BitOr(a, b) == a + b - BitAnd(a, b, 8)
BitXor(a, b) == a + b - 2 * BitAnd(a, b, 8)

\* cpu.rs:105, the arithmetic of adc once the operand is read
add_to_register_a_without_carry_in(m, data) ==
    update_zero_and_negative_flags(
        [SetFlag(SetFlag(m, CARRY, m.a + data > 255),
                 OVERFLOW,
                 /\ (data \div 128) # (((m.a + data) % 256) \div 128)
                 /\ (((m.a + data) % 256) \div 128) # (m.a \div 128))
           EXCEPT !.a = (m.a + data) % 256],
        (m.a + data) % 256)
add_to_register_a(m, data) ==
    update_zero_and_negative_flags(
        [SetFlag(SetFlag(m, CARRY, m.a + data + (m.p % 2) > 255),
                 OVERFLOW,
                 /\ (data \div 128) # (((m.a + data + (m.p % 2)) % 256) \div 128)
                 /\ (((m.a + data + (m.p % 2)) % 256) \div 128) # (m.a \div 128))
           EXCEPT !.a = (m.a + data + (m.p % 2)) % 256],
        (m.a + data + (m.p % 2)) % 256)

\* cpu.rs:532, (mem_value as i8).wrapping_neg().wrapping_sub(1) as u8
NegateMinusOneWithoutMinusOne(mem_value) == (256 - mem_value) % 256
NegateMinusOne(mem_value) == (((256 - mem_value) % 256) + 255) % 256

adc(m, mode) ==
    Reading(m, mode, LAMBDA n, data, ea : PageTick(add_to_register_a(n, data), ea))

sbc(m, mode) ==
    Reading(m, mode,
            LAMBDA n, data, ea : PageTick(add_to_register_a(n, NegateMinusOne(data)), ea))

load_a(m, v) == update_zero_and_negative_flags([m EXCEPT !.a = v], v)
load_x(m, v) == update_zero_and_negative_flags([m EXCEPT !.x = v], v)
load_y(m, v) == update_zero_and_negative_flags([m EXCEPT !.y = v], v)

and(m, mode) ==
    Reading(m, mode, LAMBDA n, data, ea : PageTick(load_a(n, BitAnd(n.a, data, 8)), ea))
eor(m, mode) ==
    Reading(m, mode, LAMBDA n, data, ea : PageTick(load_a(n, BitXor(n.a, data)), ea))
ora(m, mode) ==
    Reading(m, mode, LAMBDA n, data, ea : PageTick(load_a(n, BitOr(n.a, data)), ea))
lda(m, mode) == Reading(m, mode, LAMBDA n, data, ea : PageTick(load_a(n, data), ea))
ldx(m, mode) == Reading(m, mode, LAMBDA n, data, ea : PageTick(load_x(n, data), ea))
ldy(m, mode) == Reading(m, mode, LAMBDA n, data, ea : PageTick(load_y(n, data), ea))

\* cpu.rs:252
cmp(m, mode, reg_value) ==
    Reading(m, mode,
            LAMBDA n, data, ea :
              PageTick(update_zero_and_negative_flags(SetFlag(n, CARRY, reg_value >= data),
                                                      (reg_value + 256 - data) % 256), ea))

\* the IGN arm of run_with_callback
ign(m, mode) == Reading(m, mode, LAMBDA n, data, ea : PageTick(n, ea))

\* cpu.rs:578
sta(m, mode) == Addressing(m, mode, LAMBDA n, ea : mem_write(n, ea.addr, n.a))
stx(m, mode) == Addressing(m, mode, LAMBDA n, ea : mem_write(n, ea.addr, n.x))
sty(m, mode) == Addressing(m, mode, LAMBDA n, ea : mem_write(n, ea.addr, n.y))

\* the handlers that read, change and write back a byte
Modify(m, mode, Result(_), Carry(_, _)) ==
    Reading(m, mode,
            LAMBDA n, data, ea :
              Do(mem_write(Carry(n, data), ea.addr, Result(data)),
                 LAMBDA k : update_zero_and_negative_flags(k, Result(data))))

inc(m, mode) == Modify(m, mode, LAMBDA v : (v + 1) % 256, LAMBDA n, v : n)
dec(m, mode) == Modify(m, mode, LAMBDA v : (v + 255) % 256, LAMBDA n, v : n)
asl_m(m, mode) ==
    Modify(m, mode, LAMBDA v : (v * 2) % 256, LAMBDA n, v : SetFlag(n, CARRY, v >= 128))

\* cpu.rs:1001: the DCP arm; the carry is set when the decremented byte is
\* not above A, and left alone otherwise
DcpCarry(p, data, a) == IF data <= a THEN Insert(p, CARRY) ELSE p
dcp(m, mode) ==
    Reading(m, mode,
            LAMBDA n, data, ea :
              Do(mem_write(n, ea.addr, (data + 255) % 256),
                 LAMBDA k :
                   update_zero_and_negative_flags(
                     [k EXCEPT !.p = DcpCarry(k.p, (data + 255) % 256, k.a)],
                     (k.a + 256 - ((data + 255) % 256)) % 256)))

\* cpu.rs:622: the offset byte is read only when the branch is taken
branch(m, condition) ==
    IF condition
      THEN [Touch(m, m.pc) EXCEPT
              !.pc = (m.pc + 1 + (IF mem_read(m, m.pc) >= 128
                                    THEN 65536 - 256 + mem_read(m, m.pc)
                                    ELSE mem_read(m, m.pc))) % 65536]
      ELSE m

\* cpu.rs:333
jmp_absolute(m) ==
    IF mem_read_u16(m, m.pc).fatal
      THEN Panic(m)
      ELSE [m EXCEPT !.pc = mem_read_u16(m, m.pc).v, !.io = @ \/ mem_read_u16(m, m.pc).io]

\* cpu.rs:339: the word at a vector, whose high byte comes from the start of
\* the vector's own page when the vector is the last byte of the page
IndirectWordAcrossPages(m, addr) == mem_read(m, addr) + 256 * mem_read(m, (addr + 1) % 65536)

IndirectWord(m, addr) ==
    IF addr % 256 = 255
      THEN mem_read(m, addr) + 256 * mem_read(m, addr - 255)
      ELSE mem_read_u16(m, addr).v

jmp_indirect(m) ==
    IF mem_read_u16(m, m.pc).fatal
      THEN Panic(m)
      ELSE [m EXCEPT !.pc = IndirectWord(m, mem_read_u16(m, m.pc).v),
                     !.io = @ \/ mem_read_u16(m, m.pc).io
                              \/ IoAddr(mem_read_u16(m, m.pc).v)
                              \/ IoAddr((mem_read_u16(m, m.pc).v + 1) % 65536)]

\* cpu.rs:352: program_counter + 2 - 1 in u16, then the operand is read
ReturnAddress(pc) == (pc + 1) % 65536

jsr(m) ==
    IF m.pc + 2 > 65535 /\ overflow_checks
      THEN Panic(m)
      ELSE Do(push_stack_u16(m, ReturnAddress(m.pc)),
              LAMBDA n : IF mem_read_u16(n, n.pc).fatal
                           THEN Panic(n)
                           ELSE [n EXCEPT !.pc = mem_read_u16(n, n.pc).v,
                                          !.io = @ \/ mem_read_u16(n, n.pc).io])

\* cpu.rs:524: pop_stack_u16() + 1 in u16
rts(m) ==
    Only({ IF r.v = 65535 /\ overflow_checks
             THEN Panic(r.m)
             ELSE [r.m EXCEPT !.pc = (r.v + 1) % 65536] :
           r \in {pop_stack_u16(m)} })

\* cpu.rs:443 and cpu.rs:518: the byte pulled with B cleared and bit 5 set
PulledStatusAsPulled(v) == v
PulledStatus(v) == Insert(Remove(v, BREAK), BREAK2)

plp(m) == Only({ [r.m EXCEPT !.p = PulledStatus(r.v)] : r \in {pop_stack(m)} })

\* cpu.rs:517
rti(m) ==
    Only({ Only({ [w.m EXCEPT !.p = PulledStatus(r.v), !.pc = w.v] :
                  w \in {pop_stack_u16(r.m)} }) :
           r \in {pop_stack(m)} })

\* cpu.rs:432
php(m) == push_stack(m, Insert(Insert(m.p, BREAK), BREAK2))

\* cpu.rs:428
pha(m) == push_stack(m, m.a)

\* cpu.rs:438
pla(m) == Only({ load_a(r.m, r.v) : r \in {pop_stack(m)} })

\* interrupts.rs:15
NMIThroughBrkVector == [vector_addr |-> 65534, b_flag_mask |-> 32, cpu_cycles |-> 2]
NMI == [vector_addr |-> 65530, b_flag_mask |-> 32, cpu_cycles |-> 2]

\* cpu.rs:826 and cpu.rs:832: b_flag_mask & bit == 1
MaskTest(b_flag_mask, bit) == BitAnd(b_flag_mask, bit, 8) = 1

\* a test of the mask's bit itself
MaskHasBit(b_flag_mask, bit) == BitAnd(b_flag_mask, bit, 8) # 0

\* cpu.rs:824..835: the copy of the status that interrupt pushes
PushedStatusByBit(p, b_flag_mask) ==
    Only({ IF MaskHasBit(b_flag_mask, BREAK2) THEN Insert(f, BREAK2) ELSE Remove(f, BREAK2) :
           f \in {IF MaskHasBit(b_flag_mask, BREAK) THEN Insert(p, BREAK) ELSE Remove(p, BREAK)} })

PushedStatus(p, b_flag_mask) ==
    Only({ IF MaskTest(b_flag_mask, BREAK2) THEN Insert(f, BREAK2) ELSE Remove(f, BREAK2) :
           f \in {IF MaskTest(b_flag_mask, BREAK) THEN Insert(p, BREAK) ELSE Remove(p, BREAK)} })

\* cpu.rs:822
interrupt(m, i) ==
    Do(push_stack_u16(m, m.pc),
       LAMBDA n :
         Do(push_stack(n, PushedStatus(n.p, i.b_flag_mask)),
            LAMBDA k :
              [Tick(SetFlag(k, INTERRUPT_DISABLE, TRUE), i.cpu_cycles)
                 EXCEPT !.pc = mem_read_u16(k, i.vector_addr).v]))

-----------------------------------------------------------------------------
(* CPU::run_with_callback: one iteration of the loop *)

\* the match on the opcode, cpu.rs:890
Dispatch(m, op) ==
    CASE op.mnemonic = "ADC" -> adc(m, op.mode)
      [] op.mnemonic = "AND" -> and(m, op.mode)
      [] op.mnemonic = "ASL" -> asl_m(m, op.mode)
      [] op.mnemonic = "BCC" -> branch(m, ~Contains(m.p, CARRY))
      [] op.mnemonic = "BCS" -> branch(m, Contains(m.p, CARRY))
      [] op.mnemonic = "BEQ" -> branch(m, Contains(m.p, ZERO))
      [] op.mnemonic = "BNE" -> branch(m, ~Contains(m.p, ZERO))
      [] op.mnemonic = "BMI" -> branch(m, Contains(m.p, NEGATIV))
      [] op.mnemonic = "BPL" -> branch(m, ~Contains(m.p, NEGATIV))
      [] op.mnemonic = "BVC" -> branch(m, ~Contains(m.p, OVERFLOW))
      [] op.mnemonic = "BVS" -> branch(m, Contains(m.p, OVERFLOW))
      [] op.mnemonic = "CLC" -> SetFlag(m, CARRY, FALSE)
      [] op.mnemonic = "SEC" -> SetFlag(m, CARRY, TRUE)
      [] op.mnemonic = "CLD" -> SetFlag(m, DECIMAL_MODE, FALSE)
      [] op.mnemonic = "SED" -> SetFlag(m, DECIMAL_MODE, TRUE)
      [] op.mnemonic = "CLI" -> SetFlag(m, INTERRUPT_DISABLE, FALSE)
      [] op.mnemonic = "SEI" -> SetFlag(m, INTERRUPT_DISABLE, TRUE)
      [] op.mnemonic = "CLV" -> SetFlag(m, OVERFLOW, FALSE)
      [] op.mnemonic = "CMP" -> cmp(m, op.mode, m.a)
      [] op.mnemonic = "DEC" -> dec(m, op.mode)
      [] op.mnemonic = "*DCP" -> dcp(m, op.mode)
      [] op.mnemonic = "DEX" -> load_x(m, (m.x + 255) % 256)
      [] op.mnemonic = "EOR" -> eor(m, op.mode)
      [] op.mnemonic = "INC" -> inc(m, op.mode)
      [] op.mnemonic = "INX" -> load_x(m, (m.x + 1) % 256)
      [] op.mnemonic = "JSR" -> jsr(m)
      [] op.mnemonic = "JMP" -> jmp_absolute(m)
      [] op.mnemonic = "JMP_INDIRECT" -> jmp_indirect(m)
      [] op.mnemonic = "LDA" -> lda(m, op.mode)
      [] op.mnemonic = "LDX" -> ldx(m, op.mode)
      [] op.mnemonic = "LDY" -> ldy(m, op.mode)
      [] op.mnemonic = "NOP" -> m
      [] op.mnemonic = "*NOP" -> ign(m, op.mode)
      [] op.mnemonic = "ORA" -> ora(m, op.mode)
      [] op.mnemonic = "PHA" -> pha(m)
      [] op.mnemonic = "PHP" -> php(m)
      [] op.mnemonic = "PLA" -> pla(m)
      [] op.mnemonic = "PLP" -> plp(m)
      [] op.mnemonic = "RTI" -> rti(m)
      [] op.mnemonic = "RTS" -> rts(m)
      [] op.mnemonic = "SBC" -> sbc(m, op.mode)
      [] op.mnemonic = "STA" -> sta(m, op.mode)
      [] op.mnemonic = "STX" -> stx(m, op.mode)
      [] op.mnemonic = "STY" -> sty(m, op.mode)
      [] op.mnemonic = "TAX" -> load_x(m, m.a)
      [] op.mnemonic = "TXA" -> load_a(m, m.x)
      [] op.mnemonic = "TSX" -> load_x(m, m.s)
      [] op.mnemonic = "TXS" -> [m EXCEPT !.s = m.x]

\* cpu.rs:887 and cpu.rs:1152: program_counter += n in u16
Advance(m, n) ==
    IF m.pc + n > 65535 /\ overflow_checks
      THEN Panic(m)
      ELSE [m EXCEPT !.pc = (m.pc + n) % 65536]

\* cpu.rs:1151: the operand bytes are skipped when the handler left the
\* program counter where the fetch had put it
FixUpAlways(m, program_counter_state, op) == Advance(m, op.len - 1)

FixUp(m, program_counter_state, op) ==
    IF program_counter_state = m.pc THEN Advance(m, op.len - 1) ELSE m

\* cpu.rs:1149
BaseTick(m, op) == Tick(m, op.cycles)

\* cpu.rs:886..1153 for an opcode other than 0x00: m is the CPU after the
\* opcode was fetched and the program counter stepped
AfterFetch(m, op) ==
    Do(Do(Dispatch(m, op), LAMBDA n : BaseTick(n, op)),
       LAMBDA n : FixUp(n, m.pc, op))

\* the iteration from the fetch on: the opcode, whether run returned, and
\* the CPU it leaves
Iteration(m) ==
    Only({ [code |-> mem_read(m, m.pc),
            returned |-> ~f.fatal /\ mem_read(m, m.pc) = 0,
            m |-> IF f.fatal \/ mem_read(m, m.pc) = 0
                    THEN f
                    ELSE AfterFetch(f, OPCODES_MAP[mem_read(m, m.pc)])] :
           f \in {Advance(Touch(m, m.pc), 1)} })

\* NesPPU::tick on the PPU fields t, as Bus::tick calls it with c CPU cycles
TickFrom(t, c) ==
    LET d == TickDots(c) % 256
        cyc1 == t.cycles + d
        sl1 == t.scanline + 1
        st1 == IF EntersVBlank(sl1)
                 THEN set_sprite_zero_hit(set_vblank_status(t.status, TRUE), FALSE)
                 ELSE t.status
        raised == EntersVBlank(sl1) /\ generate_vblank_nmi(t.ctrl)
    IN  IF ~LineDone(cyc1)
          THEN [t EXCEPT !.cycles = cyc1, !.dots = @ + d]
          ELSE IF FrameDone(sl1)
                 THEN [ctrl |-> t.ctrl, cycles |-> cyc1 - DotsPerScanline, scanline |-> 0,
                       status |-> reset_vblank_status(set_sprite_zero_hit(st1, FALSE)),
                       nmi |-> None, frames |-> t.frames + 1,
                       nmi_set |-> t.nmi_set \/ raised, dots |-> t.dots + d]
                 ELSE [ctrl |-> t.ctrl, cycles |-> cyc1 - DotsPerScanline,
                       scanline |-> sl1, status |-> st1,
                       nmi |-> IF raised THEN Some(1) ELSE t.nmi, frames |-> t.frames,
                       nmi_set |-> t.nmi_set \/ raised, dots |-> t.dots + d]

\* NesPPU::write_to_ctrl on the PPU fields t
CtrlFrom(t, value) ==
    [t EXCEPT !.ctrl = value,
              !.nmi = IF CtrlWriteRaisesNmi(generate_vblank_nmi(t.ctrl), value, t.status)
                        THEN Some(1)
                        ELSE t.nmi,
              !.nmi_set = t.nmi_set
                            \/ CtrlWriteRaisesNmi(generate_vblank_nmi(t.ctrl), value, t.status)]

RECURSIVE CtrlsFrom(_, _)
CtrlsFrom(t, writes) ==
    IF writes = <<>> THEN t
    ELSE CtrlsFrom(Only({CtrlFrom(v, Head(writes)) : v \in {t}}), Tail(writes))

RECURSIVE TicksFrom(_, _)
TicksFrom(t, ticks) ==
    IF ticks = <<>> THEN t
    ELSE TicksFrom(Only({TickFrom(v, Head(ticks)) : v \in {t}}), Tail(ticks))

Sum(ticks) ==
    IF ticks = <<>> THEN 0
    ELSE IF Len(ticks) = 1 THEN ticks[1]
    ELSE IF Len(ticks) = 2 THEN ticks[1] + ticks[2]
    ELSE ticks[1] + ticks[2] + ticks[3]

Registers == <<register_a, register_x, register_y, stack_pointer, cpu_status, program_counter>>

\* the CPU m that a part of the iteration leaves, and the PPU after its
\* writes and ticks, from the PPU fields t0
Leave(m, t0, l) ==
    \E t \in {TicksFrom(CtrlsFrom(t0, m.ctrl_writes), m.ticks)} :
      /\ register_a' = m.a
      /\ register_x' = m.x
      /\ register_y' = m.y
      /\ stack_pointer' = m.s
      /\ cpu_status' = m.p
      /\ program_counter' = m.pc
      /\ cpu_wram' = m.ram
      /\ wram_log' = m.log
      /\ fatal' = m.fatal
      /\ bus_cycles' = bus_cycles + Sum(m.ticks)
      /\ ppu_cycles' = t.cycles
      /\ scanline' = t.scanline
      /\ status' = t.status
      /\ nmi_interrupt' = t.nmi
      /\ dots' = dots + t.dots
      /\ frame_signals' = frame_signals + t.frames
      /\ callbacks' = callbacks + t.frames
      /\ ctrl' = t.ctrl
      /\ last' = [l EXCEPT !.nmi_set = t.nmi_set]
      /\ w2006' = <<>>
      /\ UNCHANGED <<addr_value, addr_hi_ptr, scroll_x, scroll_y, scroll_latch>>
      /\ UNCHANGED <<ppuMem, overflow_checks, ppuOam, prg_rom, joypad1>>

PpuTime(nmi) ==
    [ctrl |-> ctrl, cycles |-> ppu_cycles, scanline |-> scanline, status |-> status,
     nmi |-> nmi, frames |-> 0, nmi_set |-> FALSE, dots |-> 0]

\* history: the registers the last NMI entry found, none before the first
Entry == IF "entry" \in DOMAIN last THEN last.entry ELSE <<>>

\* cpu.rs:880: the iteration found the NMI latch set: the latch is taken and
\* the interrupt entered; the fetch comes next
InIteration == last.op = "interrupt"

Interrupt ==
    /\ ~fatal
    /\ ~InIteration
    /\ nmi_interrupt # None
    /\ \E m \in {interrupt(Cpu, NMI)} :
         Leave(m, PpuTime(None),
               [op |-> "interrupt", ret |-> NoRet, nmi_set |-> FALSE, from |-> Registers,
                stack |-> m.stack, ticks |-> m.ticks, entry |-> Registers])

\* cpu.rs:884..1153: the rest of the iteration, for an opcode of the table
\* modelled and addresses the bus serves without the PPU or the joypad
Execute ==
    /\ ~fatal
    /\ nmi_interrupt = None \/ InIteration
    /\ mem_read(Cpu, program_counter) \in DOMAIN OPCODES_MAP
    /\ \E r \in {Iteration(Cpu)} :
         /\ ~r.m.io
         /\ Leave(r.m, PpuTime(nmi_interrupt),
                  [op |-> "step", ret |-> NoRet, nmi_set |-> FALSE, from |-> Registers,
                   code |-> r.code, at |-> program_counter, returned |-> r.returned,
                   stack |-> r.m.stack, ticks |-> r.m.ticks, entry |-> Entry])

-----------------------------------------------------------------------------
(* The PPU driven dot by dot *)

DotSteps == {1, 2, 255}

InitDots == Fresh("HORIZONTAL", TRUE)

NextDots == \E d \in DotSteps : PpuTick(d)

SpecDots == InitDots /\ [][NextDots]_vars

-----------------------------------------------------------------------------
(* The bus ticked with cycle counts over the whole u8 range, in both builds *)

RatioSteps == {1, 2, 7, 85, 86, 255}

InitBus == \E oc \in BOOLEAN : Fresh("HORIZONTAL", oc)

NextBus == \E c \in RatioSteps : BusTickTo(c, MaxRatioCycles)

SpecBus == InitBus /\ [][NextBus]_vars

-----------------------------------------------------------------------------
(* The PPU ticked through the bus while the CPU uses its registers.  The   *)
(* cycle counts are multiples of 31: 341 = 11 * 31, so the dot counter     *)
(* runs through few values and a frame is covered in about 960 ticks.      *)

CycleSteps == {31, 62}
CtrlBytes == {0, 128}
LatchBytes == {63}

InitPpu == Fresh("HORIZONTAL", TRUE)

NextPpu ==
    \/ \E c \in CycleSteps : BusTick(c)
    \/ \E v \in CtrlBytes : WriteToCtrl(v)
    \/ PollNmi
    \/ ReadStatus
    \/ \E v \in LatchBytes : WriteToPpuAddr(v)
    \/ \E v \in LatchBytes : WriteToScroll(v)

SpecPpu == InitPpu /\ [][NextPpu]_vars

-----------------------------------------------------------------------------
(* The VRAM pointer: $2006 writes, $2007 reads, $2000 writes, $2002 reads *)

AddrBytes == {0, 31, 47, 48, 62, 63, 64, 127, 128, 255}
IncrementBytes == {0, 4}

InitAddr == Fresh("HORIZONTAL", TRUE)

NextAddr ==
    \/ \E v \in AddrBytes : WriteToPpuAddr(v)
    \/ ReadData
    \/ \E v \in IncrementBytes : WriteToCtrl(v)
    \/ ReadStatus

SpecAddr == InitAddr /\ [][NextAddr]_vars

-----------------------------------------------------------------------------
(* VRAM and the palette through $2006 and $2007 *)

\* $2006 takes a high byte, then a low byte; $2007 is accessed while the
\* pointer is within MaxOffset of a multiple of four, and writes keep at
\* most MaxCells non-zero bytes in VRAM and the palette together
DataBytes == {0, 7, 9}
MaxOffset == 1
MaxCells == 1

InWindow == AddrGet(addr_value) % 4 <= MaxOffset

DataPort(his, los) ==
    \/ \E v \in (IF addr_hi_ptr THEN his ELSE los) : WriteToPpuAddr(v)
    \/ InWindow /\ ReadData
    \/ \E v \in DataBytes :
         /\ InWindow
         /\ WriteToData(v)
         /\ Cardinality(DOMAIN vram') + Cardinality(DOMAIN palette_table') <= MaxCells

\* pattern tables, the four nametables and their unused mirror, under every
\* mirroring tag
Mirrorings == {"HORIZONTAL", "VERTICAL", "FOUR_SCREEN"}
VramHiBytes == {0, 32, 36, 40, 44, 48}
VramLoBytes == {0}

InitVram == \E m \in Mirrorings : Fresh(m, TRUE)

NextVram == DataPort(VramHiBytes, VramLoBytes)

SpecVram == InitVram /\ [][NextVram]_vars

\* the palette and, for buffered reads, a pattern table
PaletteHiBytes == {0, 63}
PaletteLoBytes == {0, 16, 20, 32}

InitPalette == Fresh("HORIZONTAL", TRUE)

NextPalette == DataPort(PaletteHiBytes, PaletteLoBytes)

SpecPalette == InitPalette /\ [][NextPalette]_vars

-----------------------------------------------------------------------------
(* Work RAM, PRG-ROM and OAM DMA through the bus *)

\* both ends of the 2 KiB of work RAM with mirrors of each, and DMA pages in
\* RAM, in the PPU registers, at 0x4000, in the unmapped range and in PRG-ROM
RamAddrs == {0, 2048, 6144, 2047, 4095}
RamBytes == {0, 7, 9}
DmaPages == {0, 15, 32, 63, 64, 65, 255}
OamAddrs == {0, 255}

InitWram == Fresh("HORIZONTAL", TRUE)

NextWram ==
    \/ \E a \in RamAddrs \cup {8196} : MemRead(a)
    \/ \E a \in RamAddrs, d \in RamBytes : MemWrite(a, d)
    \/ \E v \in OamAddrs : MemWrite(8195, v)
    \/ \E d \in DmaPages : MemWrite(16404, d)

SpecWram == InitWram /\ [][NextWram]_vars

-----------------------------------------------------------------------------
(* The bus address map, reset and operand addresses *)

\* ROMs of both sizes with two reset vectors, three CPU register states (the
\* one after construction and two that instructions leave), and bus addresses
\* in every range of the address map
RomLens == {16384, 32768}
ResetVectors == {32768, 49406}
Roms == [len : RomLens, reset : ResetVectors]
CpuStates ==
    { NewCpu,
      [a |-> 18, x |-> 52, y |-> 86, s |-> 0, p |-> 239, pc |-> 4660],
      [a |-> 255, x |-> 255, y |-> 255, s |-> 255, p |-> 161, pc |-> 65535] }
RomAddrs == {32768, 49151, 49152, 65532, 65535}
WriteOnlyAddrs == {8192, 8193, 8195, 8197, 8198, 8200, 12291, 16381, 16382}
ReadOnlyAddrs == {8194, 8202, 16378}
UnmappedAddrs == {16384, 16403, 16404, 16405, 16407, 16408, 32767}
ReadAddrs == {0, 16406} \cup RomAddrs \cup WriteOnlyAddrs \cup UnmappedAddrs
WriteAddrs == ({0, 16406, 32768, 65535} \cup ReadOnlyAddrs \cup UnmappedAddrs) \ {16404}
WriteBytes == {0, 1}
CpuTick == 85
MaxCpuCycles == 85

InitCpu == \E rom \in Roms, c \in CpuStates : FreshCpu("HORIZONTAL", TRUE, rom, c)

NextCpu ==
    \/ \E a \in ReadAddrs : MemRead(a)
    \/ \E a \in WriteAddrs, d \in WriteBytes : MemWrite(a, d)
    \/ Reset
    \/ \E mode \in AddressingModes : GetOperandAddress(mode)
    \/ BusTickTo(CpuTick, MaxCpuCycles)

SpecCpu == InitCpu /\ [][NextCpu]_vars

-----------------------------------------------------------------------------
(* Programs in PRG-ROM, run from power-on: CPU::new, reset, run *)

\* a 32 KiB image with the given bytes at bus address org, the reset vector
\* pointing at org and the NMI vector at nmi
Place(org, bytes) ==
    [i \in (org - 32768)..(org - 32768 + Len(bytes) - 1) |-> bytes[i - (org - 32768) + 1]]
NmiVector(nmi) == (32762 :> nmi % 256) @@ (32763 :> nmi \div 256)
Image(org, code, nmi) == [len |-> 32768, reset |-> org, code |-> code @@ NmiVector(nmi)]

\* the host resets once, before run, and does not call run again after it
\* returned
PowerOn == last.op = "new"
RunningAgain == TRUE
Running == ~(last.op = "step" /\ last.returned)

\* instructions as bytes
Lo(w) == w % 256
Hi(w) == w \div 256
LDA_I(v) == <<169, v>>
LDX_I(v) == <<162, v>>
LDY_I(v) == <<160, v>>
ADC_I(v) == <<105, v>>
SBC_I(v) == <<233, v>>
STA_A(w) == <<141, Lo(w), Hi(w)>>
STA_Z(z) == <<133, z>>
INC_AX(w) == <<254, Lo(w), Hi(w)>>
JMP_A(w) == <<76, Lo(w), Hi(w)>>
JMP_IND(w) == <<108, Lo(w), Hi(w)>>
JSR_A(w) == <<32, Lo(w), Hi(w)>>
Brk == <<0>>
Php == <<8>>
Clc == <<24>>
Plp == <<40>>
Sec == <<56>>
Rti == <<64>>
Pha == <<72>>
Rts == <<96>>
Pla == <<104>>
Txs == <<154>>
Nop == <<234>>

\* a program that sets P from v, enables the NMI at the start of VBlank and
\* waits in a loop; the handler at 0x9000 pushes P, pulls it into A, and returns
MainOrg == 32768
HandlerOrg == MainOrg + 4096
WaitForNmi(s, v) ==
    LDX_I(s) \o Txs \o LDA_I(v) \o Pha \o Plp \o LDA_I(128) \o STA_A(8192)
      \o INC_AX(768) \o JMP_A(MainOrg + 12)
Handler == Php \o Pla \o Rti

\* programs that pull P from an arbitrary byte with PLP and with RTI
PullWithPlp(v) == LDA_I(v) \o Pha \o Plp \o Php \o Pla \o Brk
PullWithRti(v) ==
    LDA_I(Hi(MainOrg + 32)) \o Pha \o LDA_I(Lo(MainOrg + 32)) \o Pha \o LDA_I(v) \o Pha \o Rti
AfterRti == Php \o Pla \o Sec \o ADC_I(127) \o Php \o Brk

\* a program that sets S and P, counts about 27400 cycles down to the VBlank
\* with the NMI disabled, and then enables it through 0x2000
DEC_Z(z) == <<198, z>>
Dex == <<202>>
BNE(off) == <<208, off>>
EnableLate(s, v) ==
    LDX_I(s) \o Txs \o LDA_I(v) \o Pha \o Plp \o LDA_I(27) \o STA_Z(16) \o LDX_I(150)
      \o Dex \o BNE(253) \o DEC_Z(16) \o BNE(249)
      \o LDA_I(128) \o STA_A(8192) \o Nop \o Nop \o Brk

NmiStacks == {253, 1, 0}
NmiStatuses == {0, 255, 195}
FlagImages ==
    { Image(MainOrg, Place(MainOrg, WaitForNmi(s, v)) @@ Place(HandlerOrg, Handler), HandlerOrg) :
        s \in NmiStacks, v \in NmiStatuses }
    \cup { Image(MainOrg, Place(MainOrg, EnableLate(s, v)) @@ Place(HandlerOrg, Handler),
                  HandlerOrg) : s \in NmiStacks, v \in NmiStatuses }
    \cup { Image(MainOrg, Place(MainOrg, PullWithPlp(v)), HandlerOrg) : v \in 0..255 }
    \cup { Image(MainOrg, Place(MainOrg, PullWithRti(v)) @@ Place(MainOrg + 32, AfterRti),
                  HandlerOrg) : v \in 0..255 }

MaxFlagCycles == 27500

InitFlags == \E rom \in FlagImages, oc \in BOOLEAN : FreshRom("HORIZONTAL", oc, rom)

NextFlags ==
    \/ PowerOn /\ Reset
    \/ Running /\ Interrupt
    \/ Running /\ bus_cycles < MaxFlagCycles /\ Execute

SpecFlags == InitFlags /\ [][NextFlags]_vars

-----------------------------------------------------------------------------
(* Programs that use the stack, call, jump and branch *)

\* LDX #s; TXS; LDA #v; PHA; LDA #0; PLA; BRK
RoundTrip(s, v) == LDX_I(s) \o Txs \o LDA_I(v) \o Pha \o LDA_I(0) \o Pla \o Brk
RoundTripImages ==
    { Image(MainOrg, Place(MainOrg, RoundTrip(s, v)), HandlerOrg) :
        s \in 0..255, v \in {0, 1, 127, 128, 255} }
    \cup { Image(MainOrg, Place(MainOrg, RoundTrip(s, v)), HandlerOrg) :
             s \in {0, 1, 253, 255}, v \in 0..255 }

\* LDX #s; TXS; JMP a; at a: JSR t, BRK; at 0x9000: PHA; PLA; RTS
SubOrg == MainOrg + 4096
Call(s, a, t) ==
    Place(MainOrg, LDX_I(s) \o Txs \o JMP_A(a)) @@ Place(a, JSR_A(t) \o Brk)
      @@ Place(SubOrg, Pha \o Pla \o Rts)
CallSites == {MainOrg + 16, MainOrg + 253}
CallStacks == {253, 1, 0}
CallImages ==
    { Image(MainOrg, Call(s, a, t), HandlerOrg) :
        s \in CallStacks, a \in CallSites, t \in {SubOrg, MainOrg + 17, MainOrg + 254} }

\* JMP (vec) with the vector in PRG-ROM: the low byte of the target at vec,
\* and different bytes at the start of the vector's page and after the vector
JumpRom(vec, lo) ==
    Place(MainOrg + 3, JMP_IND(vec)) @@ Place(MainOrg, JMP_A(MainOrg + 3))
      @@ Place(vec, <<lo, 144>>)
\* the same with the vector in work RAM, stored there by the program
JumpRam(vec, lo) ==
    Place(MainOrg,
          LDA_I(lo) \o STA_A(vec) \o LDA_I(128) \o STA_A(vec - (vec % 256))
            \o LDA_I(144) \o STA_A(vec + 1) \o JMP_IND(vec))
JumpImages ==
    { Image(MainOrg, JumpRom(vec, lo), HandlerOrg) :
        vec \in {MainOrg + 255, MainOrg + 32, MainOrg + 511}, lo \in {0, 4, 64, 255} }
    \cup { Image(MainOrg, JumpRam(vec, lo), HandlerOrg) :
             vec \in {767, 513, 1023}, lo \in {0, 16, 64, 255} }

\* LDA #v; PHA; PLP; JMP org; at org: a branch with its offset byte, BRK
BranchOpcodes == {16, 48, 80, 112, 144, 176, 208, 240}
Branch(org, op, v, off) ==
    Place(MainOrg, LDA_I(v) \o Pha \o Plp \o JMP_A(org)) @@ Place(org, <<op, off>> \o Brk)
BranchStatuses == {0, 195}
BranchImages ==
    { Image(MainOrg, Branch(MainOrg + 16, op, v, off), HandlerOrg) :
        op \in BranchOpcodes, v \in BranchStatuses, off \in 0..255 }
    \cup { Image(MainOrg, Branch(org, op, v, off), HandlerOrg) :
             org \in {MainOrg + 254, 65534}, op \in BranchOpcodes, v \in BranchStatuses,
             off \in {0, 1, 127, 128, 254, 255} }

MaxFlowCycles == 40

\* JMP t at 0x8000 and, after a JMP to it, at 0x80FD, with t the address of
\* the JMP's own operand, of the JMP itself, of what follows it, and elsewhere
JumpTo(a, t) ==
    IF a = MainOrg THEN Place(a, JMP_A(t) \o Brk)
    ELSE Place(MainOrg, JMP_A(a)) @@ Place(a, JMP_A(t) \o Brk)
JumpAbsoluteImages ==
    { Image(MainOrg, JumpTo(a, a + d), HandlerOrg) :
        a \in {MainOrg, MainOrg + 253}, d \in {0, 1, 2, 3, 16} }
    \cup { Image(MainOrg, JumpTo(a, t), HandlerOrg) :
             a \in {MainOrg, MainOrg + 253}, t \in {512, 2047, 65533} }

InitFlow ==
    \E rom \in RoundTripImages \cup CallImages \cup JumpImages \cup BranchImages
                \cup JumpAbsoluteImages,
       oc \in BOOLEAN :
      FreshRom("HORIZONTAL", oc, rom)

NextFlow ==
    \/ PowerOn /\ Reset
    \/ Running /\ bus_cycles < MaxFlowCycles /\ Execute

SpecFlow == InitFlow /\ [][NextFlow]_vars

-----------------------------------------------------------------------------
(* Programs that add and subtract *)

\* LDA #a; SEC; ADC #m; SBC #m; BRK
AddThenSubtract(a, m) == LDA_I(a) \o Sec \o ADC_I(m) \o SBC_I(m) \o Brk
\* LDA #p; PHA; PLP; LDA #a; ADC #m; SBC #m; BRK
AddThenSubtractFrom(p, a, m) ==
    LDA_I(p) \o Pha \o Plp \o LDA_I(a) \o ADC_I(m) \o SBC_I(m) \o Brk

AluEdges == {0, 1, 2, 63, 64, 127, 128, 129, 191, 192, 254, 255}
AluStatuses == {0, 1, 64, 65, 195, 255}
AluImage(a, m) == Image(MainOrg, Place(MainOrg, AddThenSubtract(a, m)), HandlerOrg)
AluStatusImage(p, a, m) ==
    Image(MainOrg, Place(MainOrg, AddThenSubtractFrom(p, a, m)), HandlerOrg)

\* every accumulator and operand in a build without overflow checks; the
\* edge values from every status in both builds
InitAlu ==
    \/ \E a \in 0..255, m \in 0..255 : FreshRom("HORIZONTAL", FALSE, AluImage(a, m))
    \/ \E p \in AluStatuses, a \in AluEdges, m \in AluEdges, oc \in BOOLEAN :
         FreshRom("HORIZONTAL", oc, AluStatusImage(p, a, m))

NextAlu ==
    \/ PowerOn /\ Reset
    \/ Running /\ Execute

SpecAlu == InitAlu /\ [][NextAlu]_vars

\* LDA #a; SEC when c is 1 (C is clear after reset); one ADC #m or SBC #m; BRK
Arith(op, a, c, m) == LDA_I(a) \o (IF c = 1 THEN Sec ELSE <<>>) \o <<op, m>> \o Brk
ArithImage(op, a, c, m) == Image(MainOrg, Place(MainOrg, Arith(op, a, c, m)), HandlerOrg)

InitArith ==
    \E op \in {105, 233}, a \in 0..255, c \in 0..1, m \in 0..255 :
      FreshRom("HORIZONTAL", FALSE, ArithImage(op, a, c, m))

NextArith ==
    \/ PowerOn /\ Reset
    \/ Running /\ Execute

SpecArith == InitArith /\ [][NextArith]_vars

-----------------------------------------------------------------------------
(* Programs that run one instruction of every kind with chosen X, Y and operand *)

\* LDX #x; LDY #y; LDA #0xF0; STA $10; LDA #hi; STA $11; then at 0x800C the
\* opcode with as many operand bytes as its length asks for (b, then hi); BRK
Operand(op, b, hi) ==
    IF OPCODES_MAP[op].len = 1 THEN <<>>
    ELSE IF OPCODES_MAP[op].len = 2 THEN <<b>> ELSE <<b, hi>>
OneInstruction(op, x, y, b, hi) ==
    LDX_I(x) \o LDY_I(y) \o LDA_I(240) \o STA_Z(16) \o LDA_I(hi) \o STA_Z(17)
      \o <<op>> \o Operand(op, b, hi) \o Brk
CycleImage(op, x, y, b, hi) ==
    Image(MainOrg, Place(MainOrg, OneInstruction(op, x, y, b, hi)), HandlerOrg)

CycleIndexes == {<<0, 0>>, <<15, 16>>, <<16, 15>>, <<255, 1>>, <<1, 255>>}
CycleLows == {16, 240, 248}
CycleHighs == {2, 7, 128}
MaxCycleCycles == 40

InitCycles ==
    \E op \in DOMAIN OPCODES_MAP \ {0}, xy \in CycleIndexes, b \in CycleLows,
       hi \in CycleHighs, oc \in BOOLEAN :
      FreshRom("HORIZONTAL", oc, CycleImage(op, xy[1], xy[2], b, hi))

NextCycles ==
    \/ PowerOn /\ Reset
    \/ Running /\ bus_cycles < MaxCycleCycles /\ Execute

SpecCycles == InitCycles /\ [][NextCycles]_vars

-----------------------------------------------------------------------------
(* Programs that run DCP on a byte of work RAM *)

\* LDA #mem; STA $10; LDA #p; PHA; PLP; LDA #a; LDX #1; the opcode with its
\* operand; BRK
LDA_Z(z) == <<165, z>>
DcpProgram(mem, p, a, code) ==
    LDA_I(mem) \o STA_Z(16) \o LDA_I(p) \o Pha \o Plp \o LDA_I(a) \o LDX_I(1) \o code \o Brk
DcpImage(mem, p, a, code) ==
    Image(MainOrg, Place(MainOrg, DcpProgram(mem, p, a, code)), HandlerOrg)

\* DCP $10, DCP $0F,X, DCP $0010 and DCP $000F,X
DcpCodes == {<<199, 16>>, <<215, 15>>, <<207, 16, 0>>, <<223, 15, 0>>}
DcpEdges == {0, 1, 127, 128, 255}
DcpStatuses == {0, 1, 195}

InitDcp ==
    \/ \E mem \in 0..255, p \in DcpStatuses, a \in DcpEdges, code \in DcpCodes :
         FreshRom("HORIZONTAL", FALSE, DcpImage(mem, p, a, code))
    \/ \E mem \in DcpEdges, p \in DcpStatuses, a \in 0..255, code \in DcpCodes :
         FreshRom("HORIZONTAL", FALSE, DcpImage(mem, p, a, code))

NextDcp ==
    \/ PowerOn /\ Reset
    \/ Running /\ Execute

SpecDcp == InitDcp /\ [][NextDcp]_vars

-----------------------------------------------------------------------------
(* Properties *)

FrameDots == ScanlinesPerFrame * DotsPerScanline
SpriteZeroHit(s) == Contains(s, SPRITE_ZERO_HIT)
IsTick(l) == l.op \in {"tick", "bus_tick"}

\* C1: once N dots have been fed to a freshly constructed PPU, the
\* frame-complete signal has been given exactly floor(N / 89342) times.
C1_FrameSignalEvery89342Dots == frame_signals = dots \div FrameDots

\* C2: after any sequence of Bus.tick calls, with any 8-bit cycle counts, the
\* dots fed to the PPU are exactly three times the bus cycle counter.
C2_ThreeDotsPerCpuCycle == dots = PpuTicksPerCpuCycle * bus_cycles

\* C3: the tick call in which the scanline becomes 241 sets the VBlank bit,
\* clears sprite-0 hit and leaves the NMI latch set exactly when the control
\* register's generate-NMI bit is on; no other tick call sets the VBlank bit
\* or the NMI latch.
C3_VBlankStartsAtScanline241 ==
    [][IsTick(last') =>
         IF scanline # VBlankScanline /\ scanline' = VBlankScanline
           THEN /\ is_in_vblank(status')
                /\ ~SpriteZeroHit(status')
                /\ (nmi_interrupt' # None) <=> generate_vblank_nmi(ctrl)
           ELSE /\ is_in_vblank(status') => is_in_vblank(status)
                /\ (nmi_interrupt' # None) => (nmi_interrupt # None)]_vars

\* C3 witness: the tick that moved the scanline to 241 has latched an NMI.
C3_Witness ==
    /\ last.op = "bus_tick" /\ last.nmi_set
    /\ scanline = VBlankScanline
    /\ is_in_vblank(status)
    /\ nmi_interrupt = Some(1)

\* C4: tick returns true exactly in the call that takes the scanline from 261
\* round to 0; that call clears the NMI latch, sprite-0 hit and VBlank, and the
\* bus calls the frame callback once for it; in every other call tick returns
\* false and the callback is not called.
C4_FrameCompleteAtScanline262 ==
    [][last'.op = "bus_tick" =>
         LET wraps == scanline = ScanlinesPerFrame - 1 /\ scanline' = 0
         IN  /\ last'.ret = BoolRet(wraps)
             /\ callbacks' = callbacks + BoolRet(wraps)
             /\ wraps => /\ nmi_interrupt' = None
                         /\ ~SpriteZeroHit(status')
                         /\ ~is_in_vblank(status')]_vars

\* C4 witness: a bus tick has completed the first frame and called the callback.
C4_Witness ==
    /\ last.op = "bus_tick" /\ last.ret = 1
    /\ scanline = 0
    /\ callbacks = 1

\* C5: in every reachable state the scanline is in 0..261 and the dot counter
\* is in 0..340.
C5_CountersInRange ==
    /\ scanline \in 0..(ScanlinesPerFrame - 1)
    /\ ppu_cycles \in 0..(DotsPerScanline - 1)

\* C6: a poll returns the NMI latch as it was and leaves it empty; an empty
\* latch stays empty through every operation other than a tick or a $2000
\* write, so the next poll without one of those in between returns nothing.
C6_PollTakesTheLatch ==
    [][/\ last'.op = "poll_nmi" =>
            /\ last'.ret = OptRet(nmi_interrupt)
            /\ nmi_interrupt' = None
       /\ (last'.op \notin {"tick", "bus_tick", "write_to_ctrl"} /\ nmi_interrupt = None)
            => nmi_interrupt' = None
       /\ (last.op = "poll_nmi" /\ last'.op = "poll_nmi") => last'.ret = NoRet]_vars

\* C6 witness: a poll has reported a latched NMI and emptied the latch.
C6_Witness ==
    /\ last.op = "poll_nmi" /\ last.ret = 1
    /\ nmi_interrupt = None

\* C7 as stated: a write of 0x80 to $2000 while the VBlank bit is set leaves
\* the NMI latch set, whatever the control register held before.
C7_WriteRaisesNmiWhateverBefore ==
    [][(last'.op = "write_to_ctrl" /\ ctrl' = GENERATE_NMI /\ is_in_vblank(status))
         => nmi_interrupt' = Some(1)]_vars

\* C7 amended: a write of 0x80 to $2000 while the VBlank bit is set raises the
\* NMI latch when the generate-NMI bit was clear before the write, and leaves
\* the latch as it was when the bit was already set.
C7_WriteRaisesNmiOnRisingEdge ==
    [][(last'.op = "write_to_ctrl" /\ ctrl' = GENERATE_NMI /\ is_in_vblank(status))
         => IF generate_vblank_nmi(ctrl)
              THEN nmi_interrupt' = nmi_interrupt
              ELSE nmi_interrupt' = Some(1)]_vars

\* C7 witness: a write of 0x80 during VBlank has raised the latch.
C7_Witness ==
    /\ last.op = "write_to_ctrl" /\ last.nmi_set
    /\ ctrl = GENERATE_NMI
    /\ is_in_vblank(status)
    /\ nmi_interrupt = Some(1)

\* C8: a read of $2002 returns the status bits as they were, clears the VBlank
\* bit and nothing else in the status, puts both write latches in the
\* first-write position, and leaves the NMI latch, scanline and dot counter alone.
C8_StatusReadSideEffects ==
    [][last'.op = "read_status" =>
         /\ last'.ret = status
         /\ status' = Remove(status, VBLANK_STARTED)
         /\ addr_hi_ptr' = TRUE
         /\ scroll_latch' = FALSE
         /\ UNCHANGED <<nmi_interrupt, scanline, ppu_cycles>>]_vars

\* C8 witness: a read has returned a set VBlank bit and cleared it, after one
\* write to $2006 and one to $2005, while an NMI was latched.
C8_Witness ==
    /\ last.op = "read_status" /\ Contains(last.ret, VBLANK_STARTED)
    /\ ~is_in_vblank(status)
    /\ addr_value = <<63, 0>> /\ addr_hi_ptr
    /\ scroll_x = 63 /\ scroll_y = 0 /\ ~scroll_latch
    /\ nmi_interrupt = Some(1)

Pointer(hi, lo) == (hi % 64) * 256 + lo

\* C9: two consecutive writes (hi, lo) to $2006, the first made with the latch
\* in the first-write position, leave the VRAM pointer at ((hi & 0x3F) << 8) | lo,
\* and the same two writes again leave it at the same value.
C9_AddrWritePair ==
    /\ Len(w2006) = 2 => AddrGet(addr_value) = Pointer(w2006[1], w2006[2])
    /\ (Len(w2006) = 4 /\ w2006[3] = w2006[1] /\ w2006[4] = w2006[2])
         => AddrGet(addr_value) = Pointer(w2006[1], w2006[2])

\* C9 witness: (0xFF, 0xFF) has been written twice and the pointer is 0x3FFF.
C9_Witness ==
    /\ w2006 = <<255, 255, 255, 255>>
    /\ AddrGet(addr_value) = 16383

\* C10: every read of $2007 advances the VRAM pointer by 1 when control bit 2
\* is clear and by 32 when it is set, modulo 0x4000.
C10_ReadAdvancesPointer ==
    [][last'.op = "read_data" =>
         AddrGet(addr_value') =
           (AddrGet(addr_value) + (IF Contains(ctrl, VRAM_ADD_INCREMENT) THEN 32 ELSE 1))
             % 16384]_vars

\* C10 witness: with control bit 2 set, a read at 0x2FE0 has returned and left
\* the pointer at 0x3000.
C10_Witness ==
    /\ last.op = "read_data" /\ ~fatal
    /\ Contains(ctrl, VRAM_ADD_INCREMENT)
    /\ AddrGet(addr_value) = 12288

IsRead(l) == l.op = "read_data"
IsWrite(l) == l.op = "write_to_data"
InNametables(a) == a \in 8192..12287
InPalette(a) == a \in 16128..16383

\* the byte a buffered read is to fetch: pattern table below 0x2000, else the
\* nametable byte, 0x3000..0x3EFF being the mirror of 0x2000..0x2EFF
ByteAt(a) ==
    IF a < 8192 THEN ChrRom(a) ELSE Load(vram, mirror_vram_addr(mirroring, a))

\* C11: a $2007 read with the pointer anywhere in 0x0000..0x3EFF returns what
\* the read buffer held and refills the buffer with the byte at the pointed
\* address, and a $2007 write at a nametable address stores the byte where
\* such a read fetches it, so that the second read after re-pointing returns it.
C11_ReadsBelowPaletteAreBuffered ==
    [][/\ (IsRead(last') /\ AddrGet(addr_value) < 16128) =>
            /\ ~fatal'
            /\ last'.ret = internal_data_buf
            /\ internal_data_buf' = ByteAt(AddrGet(addr_value))
       /\ (IsWrite(last') /\ InNametables(AddrGet(addr_value))) =>
            /\ ~fatal'
            /\ Load(vram', mirror_vram_addr(mirroring, AddrGet(addr_value))) = last'.data
      ]_vars

\* C12: a $2007 read with the pointer in 0x3F00..0x3FFF that returns has
\* returned the palette byte, not the buffer, and has refilled the read buffer
\* from the pointed address: with the palette byte or with the nametable byte
\* mirrored beneath it.
C12_PaletteReadRefillsBuffer ==
    [][(IsRead(last') /\ InPalette(AddrGet(addr_value)) /\ ~fatal') =>
         /\ last'.ret = Load(palette_table, AddrGet(addr_value) - 16128)
         /\ internal_data_buf' \in {last'.ret, ByteAt(AddrGet(addr_value))}
      ]_vars

\* the palette cell an address stands for when 0x3F10/14/18/1C are aliases of
\* 0x3F00/04/08/0C
PaletteCell(a) == IF a \in PaletteAliases THEN a - 16 - 16128 ELSE a - 16128

\* C13: through $2007, a write at a palette address in 0x3F00..0x3F1F stores
\* the byte in the cell the address stands for, and a read returns the byte of
\* the cell the address stands for, 0x3F10/14/18/1C standing for the cells of
\* 0x3F00/04/08/0C; so a byte written at an alias or its base is read back
\* from both.
C13_PaletteAliasesReadAndWrite ==
    [][/\ (IsWrite(last') /\ AddrGet(addr_value) \in 16128..16159) =>
            Load(palette_table', PaletteCell(AddrGet(addr_value))) = last'.data
       /\ (IsRead(last') /\ AddrGet(addr_value) \in 16128..16159) =>
            last'.ret = Load(palette_table, PaletteCell(AddrGet(addr_value)))
      ]_vars

\* the VRAM index of a nametable address when HORIZONTAL pairs tables 0,1 and
\* 2,3 and VERTICAL pairs tables 0,2 and 1,3, the first pair in the first KiB
PairedIndex(m, a) ==
    LET table == (a - 8192) \div 1024
        half == IF m = "HORIZONTAL" THEN table \div 2 ELSE table % 2
    IN  1024 * half + (a % 1024)

\* C14: under HORIZONTAL and VERTICAL mirroring, a $2007 write at a nametable
\* address in 0x2000..0x2FFF stores the byte, and a $2007 read there fetches
\* the byte, at the offset of the address within the KiB of its pair of tables:
\* tables 0,1 and 2,3 under HORIZONTAL, tables 0,2 and 1,3 under VERTICAL.
C14_NametableMirroring ==
    [][(mirroring \in {"HORIZONTAL", "VERTICAL"} /\ InNametables(AddrGet(addr_value))) =>
         /\ IsWrite(last') =>
              /\ ~fatal'
              /\ vram' = Store(vram, PairedIndex(mirroring, AddrGet(addr_value)), last'.data)
         /\ IsRead(last') =>
              /\ ~fatal'
              /\ internal_data_buf' = Load(vram, PairedIndex(mirroring, AddrGet(addr_value)))
      ]_vars

\* C14 witness: under VERTICAL mirroring the only byte in VRAM is a 7 at
\* index 1024, where a write through table 1 or 3 puts it, and a read at
\* 0x2C00, in table 3, has just fetched it into the buffer.
C14_Witness ==
    /\ mirroring = "VERTICAL" /\ ~fatal
    /\ IsRead(last)
    /\ AddrGet(addr_value) = 11265
    /\ vram = [i \in {1024} |-> 7]
    /\ internal_data_buf = 7

IsBusRead(l) == l.op = "mem_read"
IsBusWrite(l) == l.op = "mem_write"
IsDma(l) == IsBusWrite(l) /\ l.addr = 16404

\* what C15 says of a DMA step: OAM[(oam_addr + i) mod 256] is the CPU byte
\* at (d << 8) + i for every i, oam_addr is as before, and the bus cycle
\* counter, the scanline and the dot counter are untouched
DmaCopied ==
    /\ ~fatal'
    /\ \A i \in 0..255 :
         Load(oam_data', (oam_addr + i) % 256) = BusByte(last'.data * 256 + i)
    /\ oam_addr' = oam_addr
    /\ UNCHANGED <<bus_cycles, scanline, ppu_cycles, dots>>

LastWritten(a) ==
    IF \E b \in DOMAIN wram_log : b % 2048 = a % 2048
      THEN wram_log[CHOOSE b \in DOMAIN wram_log : b % 2048 = a % 2048]
      ELSE 0

\* C16: a bus read at an address in 0x0000..0x1FFF returns the last byte
\* written to any address of that range congruent to it modulo 2048, 0 if
\* there was none, so a byte written at addr is read back at addr | 0x1800 and
\* the other way round; the read leaves work RAM as it was.
C16_WorkRamMirrors ==
    [][(IsBusRead(last') /\ last'.addr \in 0..8191) =>
         /\ ~fatal'
         /\ last'.ret = LastWritten(last'.addr)
         /\ UNCHANGED cpu_wram
      ]_vars

\* C16 witness: the last write to the first RAM cell was a 7 at address 0, and
\* the read at 0x1800 has returned 7.
C16_Witness ==
    /\ wram_log = [b \in {0} |-> 7]
    /\ last = BusRead(6144, 7)
    /\ ~fatal

\* everything but the history: the PPU, OAM, work RAM, the ROM, the joypad,
\* the CPU registers, the cycle and callback counters and the fatal state
machine == <<ppuCore, ppuOam, busMem, cpuRegs, bus_cycles, callbacks, fatal>>

\* C17: a bus read at an address a in 0x8000..0xFFFF returns PRG-ROM[a - 0x8000]
\* when the image is 32 KiB and PRG-ROM[(a - 0x8000) mod 0x4000] when it is
\* 16 KiB, and changes no state.
C17_PrgRomRead ==
    [][(IsBusRead(last') /\ last'.addr \in 32768..65535) =>
         /\ last'.ret = PrgRom(prg_rom, IF prg_rom.len = 32768
                                          THEN last'.addr - 32768
                                          ELSE (last'.addr - 32768) % 16384)
         /\ UNCHANGED machine
      ]_vars

\* C17 witness: with a 16 KiB image the read at 0xFFFF has returned the byte
\* at index 0x3FFF, which is 0xFF.
C17_Witness ==
    /\ prg_rom.len = 16384
    /\ last = BusRead(65535, 255)
    /\ ~fatal

UnmappedReads == (16384..16405) \cup {16407} \cup (16408..32767)
UnmappedWrites == (16384..16403) \cup {16405, 16407} \cup (16408..32767)

\* C18: bus reads at 0x4000..0x4015 (0x4014 included), 0x4017 and
\* 0x4018..0x7FFF return 0 and change no state, and bus writes at
\* 0x4000..0x4013, 0x4015, 0x4017 and 0x4018..0x7FFF change no state.
C18_UnmappedAccessesAreQuiet ==
    [][/\ (IsBusRead(last') /\ last'.addr \in UnmappedReads) =>
            last'.ret = 0 /\ UNCHANGED machine
       /\ (IsBusWrite(last') /\ last'.addr \in UnmappedWrites) =>
            UNCHANGED machine
      ]_vars

\* the accesses C19 lists: a bus read of a write-only PPU register or of a
\* mirror of one, a bus write to 0x2002 or a mirror of it, a bus write in
\* 0x8000..0xFFFF, and an operand-address request with NoneAddressing
IsContractViolation(l) ==
    \/ /\ IsBusRead(l)
       /\ l.addr \in 8192..16383
       /\ l.addr % 8 \in {0, 1, 3, 5, 6}
    \/ /\ IsBusWrite(l)
       /\ \/ l.addr \in 8192..16383 /\ l.addr % 8 = 2
          \/ l.addr \in 32768..65535
    \/ /\ l.op = "get_operand_address"
       /\ l.mode = "NoneAddressing"

\* C19: each of these accesses ends in the fatal error state, returns no
\* value and modifies neither memory nor PPU nor any other state, and from the
\* fatal error state nothing executes any more.
C19_ContractViolationsAreFatal ==
    [][/\ ~fatal
       /\ IsContractViolation(last') =>
            /\ fatal'
            /\ last'.ret = NoRet
            /\ UNCHANGED <<ppuCore, ppuOam, busMem, cpuRegs, bus_cycles, callbacks>>
      ]_vars

\* C19 witness: with a 1 in work RAM and the bus ticked, the read at 0x3FFE,
\* a mirror of the write-only register 0x2006, has ended in the fatal error
\* state.
C19_Witness ==
    /\ fatal
    /\ last = BusRead(16382, NoRet)
    /\ cpu_wram = [i \in {0} |-> 1]
    /\ bus_cycles = CpuTick

\* C20: reset() leaves A = X = Y = 0, S = 0xFD, P = 0x24 and PC equal to the
\* little-endian word the ROM holds at 0xFFFC/0xFFFD, whatever the registers
\* were, and leaves work RAM, the PPU and the bus cycle counter unchanged.
C20_Reset ==
    [][last'.op = "reset" =>
         /\ ~fatal'
         /\ register_a' = 0 /\ register_x' = 0 /\ register_y' = 0
         /\ stack_pointer' = 253
         /\ cpu_status' = 36
         /\ program_counter' = prg_rom.reset
         /\ UNCHANGED <<cpu_wram, ppuCore, ppuOam, bus_cycles>>
      ]_vars

\* C20 witness: a 16 KiB ROM holds 0xFE, 0xC0 at its reset vector; with a 1 in
\* work RAM and the bus ticked, reset from A = 0x12, X = 0x34, Y = 0x56, S = 0,
\* P = 0xEF, PC = 0x1234 has left PC = 0xC0FE and A = X = Y = 0.
C20_Witness ==
    /\ last.op = "reset" /\ ~fatal
    /\ last.from = <<18, 52, 86, 0, 239, 4660>>
    /\ prg_rom = [len |-> 16384, reset |-> 49406]
    /\ program_counter = 49406
    /\ register_a = 0 /\ register_x = 0 /\ register_y = 0
    /\ cpu_wram = [i \in {0} |-> 1]
    /\ bus_cycles = CpuTick

-----------------------------------------------------------------------------
(* The CPU running programs *)

IsStep(l) == l.op = "step"
IsInterrupt(l) == l.op = "interrupt"
StatusClean(p) == Contains(p, BREAK2) /\ ~Contains(p, BREAK)
StackByte(ram, s) == Load(ram, RamIndex(256 + (s % 256)))

\* C21: before and after every step of the CPU (reset, NMI entry, any
\* instruction, PLP and RTI pulling any byte included) bit 5 of P is 1 and
\* bit 4 is 0; the byte PHP pushes has both bits set, and the status byte an
\* NMI entry pushes has bit 4 clear.
C21_StatusBits ==
    [][/\ StatusClean(cpu_status)
       /\ StatusClean(cpu_status')
       /\ IsStep(last') /\ last'.code = 8 /\ ~fatal' =>
            /\ Contains(StackByte(cpu_wram', stack_pointer), BREAK)
            /\ Contains(StackByte(cpu_wram', stack_pointer), BREAK2)
       /\ IsInterrupt(last') =>
            ~Contains(StackByte(cpu_wram', stack_pointer + 254), BREAK)]_vars

\* an RTI has pulled a status byte with bit 4 set and bit 5 clear
C21_Witness ==
    /\ IsStep(last)
    /\ last.code = 64
    /\ Contains(StackByte(cpu_wram, last.from[4]  + 1), BREAK)
    /\ ~Contains(StackByte(cpu_wram, last.from[4] + 1), BREAK2)
    /\ cpu_status = 32 + StackByte(cpu_wram, last.from[4] + 1) - 16

\* C22: an NMI entry pushes the high byte of PC at 0x0100 + S, the low byte
\* below it and below that a copy of P with bit 4 clear and bit 5 set, in
\* that order; it sets I, ticks the bus by 2 cycles and loads PC from the
\* word at 0xFFFA; S ends 3 lower (mod 256) and A, X, Y are unchanged.
C22_NmiEntry ==
    [][IsInterrupt(last') =>
         /\ last'.stack = <<256 + stack_pointer, 256 + ((stack_pointer + 255) % 256),
                            256 + ((stack_pointer + 254) % 256)>>
         /\ StackByte(cpu_wram', stack_pointer) = program_counter \div 256
         /\ StackByte(cpu_wram', stack_pointer + 255) = program_counter % 256
         /\ StackByte(cpu_wram', stack_pointer + 254)
              = Insert(Remove(cpu_status, BREAK), BREAK2)
         /\ cpu_status' = Insert(cpu_status, INTERRUPT_DISABLE)
         /\ bus_cycles' = bus_cycles + 2
         /\ last'.ticks = <<2>>
         /\ program_counter' = PrgWord(65530)
         /\ stack_pointer' = (stack_pointer + 253) % 256
         /\ <<register_a, register_x, register_y>>' = <<register_a, register_x, register_y>>
         /\ ~fatal']_vars

\* the same without the value of bit 5 in the pushed copy
C22_NmiEntryButBit5 ==
    [][IsInterrupt(last') =>
         /\ last'.stack = <<256 + stack_pointer, 256 + ((stack_pointer + 255) % 256),
                            256 + ((stack_pointer + 254) % 256)>>
         /\ StackByte(cpu_wram', stack_pointer) = program_counter \div 256
         /\ StackByte(cpu_wram', stack_pointer + 255) = program_counter % 256
         /\ StackByte(cpu_wram', stack_pointer + 254)
              = Remove(Remove(cpu_status, BREAK), BREAK2)
         /\ cpu_status' = Insert(cpu_status, INTERRUPT_DISABLE)
         /\ bus_cycles' = bus_cycles + 2
         /\ program_counter' = PrgWord(65530)
         /\ stack_pointer' = (stack_pointer + 253) % 256
         /\ <<register_a, register_x, register_y>>' = <<register_a, register_x, register_y>>
         /\ ~fatal']_vars

\* C30: an iteration that fetches opcode 0x00 returns from run: it leaves A,
\* X, Y, S, P, the work RAM, the cycle counter and the PPU as they were, uses
\* no stack address, makes no tick, and steps PC by one; no iteration follows
\* it.  An iteration that fetches any other opcode does not return.
C30_BrkReturns ==
    [][/\ IsStep(last') /\ ~fatal' =>
            /\ last'.returned <=> last'.code = 0
            /\ last'.code = 0 =>
                 /\ program_counter' = program_counter + 1
                 /\ <<register_a, register_x, register_y, stack_pointer, cpu_status>>'
                      = <<register_a, register_x, register_y, stack_pointer, cpu_status>>
                 /\ last'.stack = <<>>
                 /\ last'.ticks = <<>>
                 /\ UNCHANGED <<cpu_wram, bus_cycles, dots, ppuCore, callbacks>>
       /\ IsStep(last) /\ last.returned => ~IsStep(last') /\ ~IsInterrupt(last')]_vars

\* a program has run some instructions, pushed on the stack and reached its BRK
C30_Witness ==
    /\ IsStep(last)
    /\ last.code = 0
    /\ last.returned
    /\ last.at > MainOrg
    /\ bus_cycles > 0
    /\ program_counter = last.at + 1

\* the byte of the program image at a bus address in 0x8000..0xFFFF
RomByte(addr) == PrgRom(prg_rom, addr - 32768)
\* the image is LDX #s; TXS; LDA #v; PHA; LDA #0; PLA
IsRoundTrip ==
    /\ RomByte(MainOrg) = 162 /\ RomByte(MainOrg + 2) = 154 /\ RomByte(MainOrg + 3) = 169
    /\ RomByte(MainOrg + 5) = 72 /\ RomByte(MainOrg + 6) = 169 /\ RomByte(MainOrg + 7) = 0
    /\ RomByte(MainOrg + 8) = 104
InStackPage(l) == \A i \in DOMAIN l.stack : l.stack[i] \in 256..511

\* C23: every address push_stack and pop_stack use lies in 0x0100..0x01FF;
\* PHA writes A at 0x0100 + S and then decrements S mod 256; PLA increments
\* S mod 256 and then reads 0x0100 + S; and LDX #s; TXS; LDA #v; PHA; LDA #0;
\* PLA leaves A = v and S = s for every s and v run.
C23_StackLifo ==
    [][IsStep(last') =>
         /\ InStackPage(last')
         /\ last'.code = 72 =>
              /\ last'.stack = <<256 + stack_pointer>>
              /\ StackByte(cpu_wram', stack_pointer) = register_a
              /\ stack_pointer' = (stack_pointer + 255) % 256
         /\ last'.code = 104 =>
              /\ last'.stack = <<256 + ((stack_pointer + 1) % 256)>>
              /\ register_a' = StackByte(cpu_wram, stack_pointer + 1)
              /\ stack_pointer' = (stack_pointer + 1) % 256
         /\ last'.code = 104 /\ IsRoundTrip /\ last'.at = MainOrg + 8 =>
              /\ register_a = 0
              /\ register_a' = RomByte(MainOrg + 4)
              /\ stack_pointer' = RomByte(MainOrg + 1)]_vars

\* the round trip has run with S = 0 and v = 255: the push wrote 0x0100 and
\* wrapped S to 0xFF, the pull brought both back
C23_Witness ==
    /\ IsStep(last)
    /\ last.code = 104
    /\ IsRoundTrip
    /\ last.at = MainOrg + 8
    /\ register_a = 255
    /\ stack_pointer = 0
    /\ last.from[4] = 255
    /\ last.stack = <<256>>

RomWord(addr) == RomByte(addr) + 256 * RomByte(addr + 1)

\* what JSR and RTS do to the stack, and where a JSR whose operand is not
\* in Except continues
JsrRts(Except) ==
    IsStep(last') /\ ~fatal' =>
      /\ last'.code = 32 =>
           /\ last'.stack = <<256 + stack_pointer, 256 + ((stack_pointer + 255) % 256)>>
           /\ StackByte(cpu_wram', stack_pointer) = (last'.at + 2) \div 256
           /\ StackByte(cpu_wram', stack_pointer + 255) = (last'.at + 2) % 256
           /\ stack_pointer' = (stack_pointer + 254) % 256
           /\ RomWord(last'.at + 1) \notin Except =>
                program_counter' = RomWord(last'.at + 1)
      /\ last'.code = 96 =>
           /\ program_counter' = (StackByte(cpu_wram, stack_pointer + 1)
                                    + 256 * StackByte(cpu_wram, stack_pointer + 2) + 1) % 65536
           /\ stack_pointer' = (stack_pointer + 2) % 256
      /\ last'.code = 96 /\ last'.at = SubOrg + 2 =>
           /\ program_counter' = RomWord(MainOrg + 4) + 3
           /\ stack_pointer' = RomByte(MainOrg + 1)

\* C24: a JSR at address a pushes a + 2, high byte first, and continues at
\* its operand; RTS pops a word and continues one past it, so the RTS of the
\* subroutine (which pushes and pulls A in between) continues at a + 3 with
\* S as it was before the JSR.
C24_JsrRts == [][JsrRts({})]_vars

\* the same for the JSRs whose operand is not the address of their own
\* operand bytes
C24_JsrRtsElsewhere == [][JsrRts({program_counter + 1})]_vars

\* the byte at an address of work RAM or PRG-ROM before the step
MemByte(addr) ==
    IF addr < 8192 THEN Load(cpu_wram, RamIndex(addr))
    ELSE IF addr >= 32768 THEN RomByte(addr) ELSE 0

\* where JMP (vec) continues when the target is not in Except
JumpIndirect(Except) ==
    IsStep(last') /\ last'.code = 108 =>
      LET vec == RomWord(last'.at + 1)
          target == IF vec % 256 = 255
                      THEN MemByte(vec) + 256 * MemByte(vec - 255)
                      ELSE MemByte(vec) + 256 * MemByte(vec + 1)
      IN  /\ ~fatal'
          /\ target \notin Except => program_counter' = target

\* C25: JMP (vec) continues at the word whose low byte is at vec and whose
\* high byte is at vec & 0xFF00 when the low byte of vec is 0xFF, and at
\* vec + 1 otherwise.
C25_JmpIndirect == [][JumpIndirect({})]_vars

\* the same for the targets other than the address of the operand bytes of
\* the JMP
C25_JmpIndirectElsewhere == [][JumpIndirect({program_counter + 1})]_vars

\* the condition of a branch opcode on the status p
BranchTaken(code, p) ==
    CASE code = 16 -> ~Contains(p, NEGATIV)
      [] code = 48 -> Contains(p, NEGATIV)
      [] code = 80 -> ~Contains(p, OVERFLOW)
      [] code = 112 -> Contains(p, OVERFLOW)
      [] code = 144 -> ~Contains(p, CARRY)
      [] code = 176 -> Contains(p, CARRY)
      [] code = 208 -> ~Contains(p, ZERO)
      [] code = 240 -> Contains(p, ZERO)

Signed(byte) == IF byte >= 128 THEN byte - 256 ELSE byte

\* where a branch continues, for the offsets not in Except and the offset
\* bytes not at the addresses in Top
BranchTarget(Except, Top) ==
    IsStep(last') /\ last'.code \in BranchOpcodes
      /\ Signed(RomByte(last'.at + 1)) \notin Except /\ last'.at + 1 \notin Top =>
        /\ ~fatal'
        /\ program_counter'
             = IF BranchTaken(last'.code, cpu_status)
                 THEN (last'.at + 1 + 1 + Signed(RomByte(last'.at + 1)) + 65536) % 65536
                 ELSE (last'.at + 2) % 65536

\* C26: a branch whose condition holds continues at (address of the offset
\* byte + 1 + offset) mod 65536, for the eight branch opcodes and every
\* offset in -128..127; a branch whose condition does not hold continues
\* after the offset byte.
C26_BranchTarget == [][BranchTarget({}, {})]_vars

\* the same for the offsets other than -1
C26_BranchTargetButMinusOne == [][BranchTarget({0 - 1}, {})]_vars

\* the same for the offsets other than -1 and the offset bytes below 0xFFFF
C26_BranchTargetButMinusOneBelowTop == [][BranchTarget({0 - 1}, {65535})]_vars


\* what the step found: A and P before it, and its immediate operand
StepA == last.from[1]
StepCarry == last.from[5] % 2
StepOperand == RomByte(last.at + 1)

\* A and the flags C, V, Z, N as they are now
Outcome ==
    [a |-> register_a, c |-> Contains(cpu_status, CARRY), v |-> Contains(cpu_status, OVERFLOW),
     z |-> Contains(cpu_status, ZERO), n |-> Contains(cpu_status, NEGATIV)]

\* A and the flags of an addition of a, mem and carry c, as the claim gives them
AdcResult(a, mem, c) ==
    [a |-> (a + mem + c) % 256,
     c |-> a + mem + c > 255,
     v |-> BitAnd(BitAnd(BitXor(mem, (a + mem + c) % 256), BitXor((a + mem + c) % 256, a), 8),
                  128, 8) # 0,
     z |-> (a + mem + c) % 256 = 0,
     n |-> BitAnd((a + mem + c) % 256, 128, 8) # 0]

\* C28: ADC #M leaves A = (A + M + C) mod 256, C iff A + M + C > 0xFF, V iff
\* (M ^ result) & (result ^ A) & 0x80 is not zero, Z iff the result is zero
\* and N iff its bit 7 is set; SBC #M leaves what ADC of the bitwise
\* complement of M would leave.
C28_AdcSbc ==
    IsStep(last) =>
      /\ last.code = 105 => Outcome = AdcResult(StepA, StepOperand, StepCarry)
      /\ last.code = 233 => Outcome = AdcResult(StepA, BitXor(StepOperand, 255), StepCarry)

\* SBC #1 from A = 0x80 with the carry clear has left 0x7E with V and C set
C28_Witness ==
    /\ IsStep(last)
    /\ last.code = 233
    /\ StepA = 128 /\ StepCarry = 0 /\ StepOperand = 1
    /\ register_a = 126
    /\ Contains(cpu_status, OVERFLOW)
    /\ Contains(cpu_status, CARRY)

\* the SBC of one of the two programs has run: its operand, and A, C and V
\* as they were before the ADC
IsAddThenSubtract ==
    /\ RomByte(MainOrg) = 169 /\ RomByte(MainOrg + 2) = 56
    /\ RomByte(MainOrg + 3) = 105 /\ RomByte(MainOrg + 5) = 233
IsAddThenSubtractFrom ==
    /\ RomByte(MainOrg) = 169 /\ RomByte(MainOrg + 2) = 72 /\ RomByte(MainOrg + 3) = 40
    /\ RomByte(MainOrg + 4) = 169 /\ RomByte(MainOrg + 6) = 105 /\ RomByte(MainOrg + 8) = 233
PairDone ==
    /\ IsStep(last) /\ last.code = 233
    /\ \/ IsAddThenSubtract /\ last.at = MainOrg + 5
       \/ IsAddThenSubtractFrom /\ last.at = MainOrg + 8
PairA == IF IsAddThenSubtract THEN RomByte(MainOrg + 1) ELSE RomByte(MainOrg + 5)
PairCarry == IF IsAddThenSubtract THEN 1 ELSE RomByte(MainOrg + 1) % 2
PairOverflow ==
    IF IsAddThenSubtract THEN Contains(StatusReset, OVERFLOW)
    ELSE Contains(RomByte(MainOrg + 1), OVERFLOW)

\* C27: with C = 1 before, ADC #M then SBC #M leaves A, C and V as they were
\* before the ADC.
C27_AdcSbcIdentity ==
    PairDone /\ PairCarry = 1 =>
      /\ register_a = PairA
      /\ Contains(cpu_status, CARRY)
      /\ Contains(cpu_status, OVERFLOW) <=> PairOverflow

\* C27 (amended): with C = 1 before, ADC #M then SBC #M leaves A as it was
\* and C set when A + M + 1 <= 0xFF, with V as the ADC left it (set iff A and
\* M are below 0x80 and A + M + 1 is not) whatever V was before; when
\* A + M + 1 > 0xFF it leaves A one higher mod 256, and C set iff A was 0xFF.
C27_AdcSbcIdentityWithoutCarryOut ==
    PairDone /\ PairCarry = 1 =>
      IF PairA + StepOperand + 1 <= 255
        THEN /\ register_a = PairA
             /\ Contains(cpu_status, CARRY)
             /\ Contains(cpu_status, OVERFLOW)
                  <=> (PairA < 128 /\ StepOperand < 128 /\ PairA + StepOperand + 1 >= 128)
        ELSE /\ register_a = (PairA + 1) % 256
             /\ Contains(cpu_status, CARRY) <=> PairA = 255

\* PLP set C and V, then ADC #2 and SBC #2 from A = 1 have left A = 1 with C
\* set and V clear
C27_Witness ==
    /\ PairDone
    /\ IsAddThenSubtractFrom
    /\ RomByte(MainOrg + 1) = 65
    /\ PairA = 1 /\ StepOperand = 2
    /\ register_a = 1
    /\ Contains(cpu_status, CARRY)
    /\ ~Contains(cpu_status, OVERFLOW)


\* the instructions that pay for a crossed page, and the modes that can cross
Penalised == {"ADC", "AND", "CMP", "EOR", "LDA", "LDX", "LDY", "ORA", "SBC", "*NOP"}
MemWord(addr) == MemByte(addr) + 256 * MemByte((addr + 1) % 65536)
ZeroPageWord(z) == MemByte(z) + 256 * MemByte((z + 1) % 256)
\* the un-indexed base address of the instruction at address at, and the
\* index its mode adds
BaseAddress(at, mode) ==
    IF mode = "Indirect_Y" THEN ZeroPageWord(MemByte(at + 1)) ELSE MemWord(at + 1)
IndexOf(mode) == IF mode = "Absolute_X" THEN register_x ELSE register_y
Crosses(at, mode) ==
    /\ mode \in {"Absolute_X", "Absolute_Y", "Indirect_Y"}
    /\ BaseAddress(at, mode) \div 256
         # ((BaseAddress(at, mode) + IndexOf(mode)) % 65536) \div 256
Penalty(at, op) == IF op.mnemonic \in Penalised /\ Crosses(at, op.mode) THEN 1 ELSE 0

\* C29: an instruction other than BRK adds its base cycles to the bus cycle
\* counter, and one more exactly when it is ADC, AND, CMP, EOR, LDA, LDX,
\* LDY, ORA, SBC or an IGN NOP whose Absolute,X / Absolute,Y / (Indirect),Y
\* address is in another page than its base address; stores and
\* read-modify-write instructions add the base cycles only.
C29_Cycles ==
    [][IsStep(last') /\ ~fatal' /\ last'.code # 0 =>
         bus_cycles' = bus_cycles + OPCODES_MAP[last'.code].cycles
                         + Penalty(last'.at, OPCODES_MAP[last'.code])]_vars

\* LDA ($10),Y with 0x02F0 at 0x10 and Y = 16 has read 0x0300: one tick for
\* the page and one of five cycles
C29_Witness ==
    /\ IsStep(last)
    /\ last.code = 177
    /\ last.from[3] = 16
    /\ RomByte(last.at + 1) = 16
    /\ MemByte(17) = 2
    /\ last.ticks = <<1, 5>>

\* STA $02F0,X with X = 16 has written 0x0300 in its five cycles
C29_StoreAcrossPage ==
    /\ IsStep(last)
    /\ last.code = 157
    /\ last.from[2] = 16
    /\ RomWord(last.at + 1) = 752
    /\ last.ticks = <<5>>

\* INC $02F0,X with X = 16 has changed 0x0300 in its seven cycles
C29_ModifyAcrossPage ==
    /\ IsStep(last)
    /\ last.code = 254
    /\ last.from[2] = 16
    /\ RomWord(last.at + 1) = 752
    /\ last.ticks = <<7>>


\* a $2007 access: the step, and the pointer it found
IsDataAccess(l) == l.op \in {"read_data", "write_to_data"}
DataPointer == AddrGet(addr_value)

\* an access at a nametable pointer ends without a panic at an index inside
\* VRAM, under the mirroring tags not in Except
VramInBounds(Except) ==
    mirroring \notin Except /\ IsDataAccess(last') /\ DataPointer \in 8192..12287 =>
      /\ mirror_vram_addr(mirroring, DataPointer) \in 0..(VramLen - 1)
      /\ ~fatal'
      /\ DOMAIN vram' \subseteq 0..(VramLen - 1)

\* C34: under HORIZONTAL, VERTICAL and FOUR_SCREEN a $2007 read or write
\* with the pointer in 0x2000..0x2FFF uses a mirror_vram_addr index in
\* 0..2047 and stays inside the 2 KiB of VRAM.
C34_VramInBounds == [][VramInBounds({})]_vars

\* the same under HORIZONTAL and VERTICAL
C34_VramInBoundsButFourScreen == [][VramInBounds({"FOUR_SCREEN"})]_vars

\* a $2007 access with the pointer in the palette range below Top ends
\* without a panic and leaves the palette inside its 32 bytes
PaletteInBounds(Top) ==
    IsDataAccess(last') /\ DataPointer \in 16128..(Top - 1) =>
      /\ ~fatal'
      /\ DOMAIN palette_table' \subseteq 0..(PaletteLen - 1)
      /\ vram' = vram

\* C35: a $2007 read or write with the pointer anywhere in 0x3F00..0x3FFF
\* ends without a fatal error and touches the palette at an index in 0..31.
C35_PaletteInBounds == [][PaletteInBounds(16384)]_vars

\* the same with the pointer in 0x3F00..0x3F1F
C35_PaletteInBoundsBelow3F20 == [][PaletteInBounds(16160)]_vars

\* C36: while the NMI latch or the VBlank bit of the status register is set
\* the scanline is in 241..261; neither is set while it is in 0..240.
C36_VBlankScanlines ==
    nmi_interrupt # None \/ Contains(status, VBLANK_STARTED) =>
      scanline \in VBlankScanline..(ScanlinesPerFrame - 1)

\* on the last scanline of the frame the VBlank bit is still set and a $2000
\* write has just latched an NMI
C36_Witness ==
    /\ scanline = ScanlinesPerFrame - 1
    /\ Contains(status, VBLANK_STARTED)
    /\ nmi_interrupt # None
    /\ last.op = "write_to_ctrl"
    /\ last.nmi_set


\* a JMP absolute or a JSR whose operand is not in Except continues at its
\* operand
TransferTarget(Except) ==
    IsStep(last') /\ last'.code \in {76, 32} /\ ~fatal' /\ MemWord(last'.at + 1) \notin Except =>
      program_counter' = MemWord(last'.at + 1)

\* C33: after JMP absolute or JSR with operand t the next opcode is fetched
\* at t, also when t is the address of the instruction's own operand bytes.
C33_TransferTarget == [][TransferTarget({})]_vars

\* the same for every t but the address of the instruction's own operand
C33_TransferTargetElsewhere == [][TransferTarget({program_counter + 1})]_vars


\* the byte DCP found at 0x0010, decremented
Decremented == (Load(cpu_wram, RamIndex(16)) + 255) % 256

\* what a DCP of the byte at 0x0010 leaves, with the carry as given
DcpOutcome(carry) ==
    IsStep(last') /\ last'.code \in {199, 215, 207, 223} /\ ~fatal' =>
      /\ Load(cpu_wram', RamIndex(16)) = Decremented
      /\ register_a' = register_a
      /\ Contains(cpu_status', CARRY) <=> carry
      /\ Contains(cpu_status', ZERO) <=> register_a = Decremented
      /\ Contains(cpu_status', NEGATIV) <=> (register_a + 256 - Decremented) % 256 >= 128

\* C32: DCP leaves the byte at (M - 1) mod 256, C set iff A is not below
\* that result and clear otherwise, and Z and N as (A - result) mod 256 gives
\* them, as DEC followed by CMP would.
C32_DcpIsDecThenCmp == [][DcpOutcome(register_a >= Decremented)]_vars

\* the same with the carry left set when it was set before
C32_DcpKeepsCarry ==
    [][DcpOutcome(register_a >= Decremented \/ Contains(cpu_status, CARRY))]_vars


\* the word in the NMI vector
NmiVectorWord == RomWord(65530)

\* C31: an iteration that starts with the NMI latch set enters the NMI before
\* it fetches an opcode and fetches next at the address in the vector at
\* 0xFFFA; no instruction runs from an instruction boundary at which the
\* latch is set until the NMI entry; and no NMI entry is made with the latch
\* empty.
C31_NmiService ==
    [][/\ IsStep(last') => nmi_interrupt = None \/ IsInterrupt(last)
       /\ IsInterrupt(last') =>
            /\ nmi_interrupt # None
            /\ ~IsInterrupt(last)
            /\ program_counter' = NmiVectorWord
       /\ IsInterrupt(last) /\ IsStep(last') => last'.at = NmiVectorWord]_vars

\* the latch was set by the STA $2000 of the program that enables the NMI
\* during VBlank; the entry came before the NOP after it, and the handler's
\* first opcode has been fetched
C31_Witness ==
    /\ IsStep(last)
    /\ last.at = HandlerOrg
    /\ RomByte(MainOrg + 22) = 141
    /\ Entry # <<>>
    /\ Entry[6] = MainOrg + 25

\* the latch was set by the tick that entered VBlank, in the program that
\* enabled the NMI at the start
C31_WitnessAtVBlank ==
    /\ IsStep(last)
    /\ last.at = HandlerOrg
    /\ RomByte(MainOrg + 22) # 141
    /\ Entry # <<>>

\* C37: the RTI of a handler that left the stack as the NMI entry left it
\* puts PC, S and P back to what they were before the entry: PC at the
\* instruction that was about to be fetched, P with its I flag as before,
\* bit 4 clear and bit 5 set.
C37_NmiRtiRoundTrip ==
    [][IsStep(last') /\ last'.code = 64 /\ ~fatal' /\ Entry # <<>>
         /\ stack_pointer = (Entry[4] + 253) % 256 =>
           /\ program_counter' = Entry[6]
           /\ stack_pointer' = Entry[4]
           /\ cpu_status' = Entry[5]
           /\ StatusClean(cpu_status')]_vars

\* from S = 1 and I clear the entry wrapped S to 0xFE and set I; the RTI has
\* brought back S = 1, I clear and the PC of the interrupted program
C37_Witness ==
    /\ IsStep(last)
    /\ last.code = 64
    /\ Entry # <<>>
    /\ Entry[4] = 1
    /\ last.from[4] = 254
    /\ stack_pointer = 1
    /\ Contains(last.from[5], INTERRUPT_DISABLE)
    /\ ~Contains(cpu_status, INTERRUPT_DISABLE)
    /\ program_counter = Entry[6]

====
